---- MODULE Spec2Model ----
(***************************************************************************)
(* A model of the harness-gimp bridge: the method registry                 *)
(* (bridge/operations.py handle_method), the action dispatcher             *)
(* (_run_action), the snapshot history store (_snapshot_image,             *)
(* _undo_redo), the editor invoker (core/gimp.py run_python_batch), the    *)
(* HTTP server (bridge/server.py) and the client (bridge/client.py).       *)
(*                                                                         *)
(* Text that the code sanitises (snapshot descriptions, file stems) is a   *)
(* sequence of one-character strings.  Parameter values are tagged         *)
(* records: [int |-> n], [numstr |-> n] (a string holding the decimal n),  *)
(* [str |-> s], [txt |-> chars], [list |-> seq], [null |-> TRUE].          *)
(***************************************************************************)
EXTENDS Integers, Sequences, FiniteSets, TLC

\* ------------------------------------------------------------------ bounds
\* The clock runs over the UTC seconds 0..MaxClock.
MaxClock == 1
\* A request that would make a snapshot list longer than MaxSnaps is not issued.
MaxSnaps == 3
\* The in-place edits in a row that a run of undos is followed after.
MaxEdits == 2

\* ------------------------------------------------------------------ text
Lowers == {"a","b","c","d","e","f","g","h","i","j","k","l","m","n","o","p","q","r","s","t","u","v","w","x","y","z"}

Uppers == {"A","B","C","D","E","F","G","H","I","J","K","L","M","N","O","P","Q","R","S","T","U","V","W","X","Y","Z"}

Digits == {"0","1","2","3","4","5","6","7","8","9"}

\* The characters the pattern [a-zA-Z0-9._-] of _safe_name keeps.
SafeChars == Lowers \cup Uppers \cup Digits \cup {".", "_", "-"}

\* re.sub(r"[^a-zA-Z0-9._-]+", "-", text): every maximal run of other
\* characters becomes one hyphen.
RECURSIVE SubUnsafe(_, _)
SubUnsafe(text, inRun) ==
  IF text = <<>> THEN <<>>
  ELSE IF Head(text) \in SafeChars THEN <<Head(text)>> \o SubUnsafe(Tail(text), FALSE)
  ELSE IF inRun THEN SubUnsafe(Tail(text), TRUE)
  ELSE <<"-">> \o SubUnsafe(Tail(text), TRUE)

RECURSIVE LStrip(_)
LStrip(text) ==
  IF text # <<>> /\ Head(text) = "-" THEN LStrip(Tail(text)) ELSE text

RECURSIVE RStrip(_)
RStrip(text) ==
  IF text # <<>> /\ text[Len(text)] = "-" THEN RStrip(SubSeq(text, 1, Len(text) - 1)) ELSE text

SnapshotWord == <<"s","n","a","p","s","h","o","t">>

\* A local name of the code: v is computed once and rest runs with it.
With(v, rest(_)) == rest(v)

\* _safe_name
SafeName(text) ==
  With(RStrip(LStrip(SubUnsafe(text, FALSE))), LAMBDA cleaned :
    IF cleaned = <<>> THEN SnapshotWord ELSE cleaned)

\* "auto-before-" and "auto-after-", the prefixes of the automatic snapshots'
\* descriptions.
AutoBefore == <<"a","u","t","o","-","b","e","f","o","r","e","-">>

AutoAfter == <<"a","u","t","o","-","a","f","t","e","r","-">>

\* ------------------------------------------------------------------ paths
\* Path strings.  ImgA and ImgB have the same stem in different directories,
\* ImgAlt is another spelling of ImgA, OutP is an output that does not exist
\* at first, Missing never exists, and CwdDir is what Path("") denotes: the
\* current directory, which exists and is no regular file.
ImgA == "/w/a/img.png"

ImgAlt == "/w/b/../a/img.png"

ImgB == "/w/b/img.PNG"

OutP == "/w/out.png"

Missing == "/w/missing.png"

MacroFile == "/w/macro.json"

CwdDir == "."

Dirs == {CwdDir}

\* Path.resolve()
Resolve(p) == IF p = ImgAlt THEN ImgA ELSE p

\* Path.stem
Stem(p) ==
  CASE p \in {ImgA, ImgAlt, ImgB} -> <<"i","m","g">>
    [] p = OutP -> <<"o","u","t">>
    [] p = Missing -> <<"m","i","s","s","i","n","g">>
    [] p = MacroFile -> <<"m","a","c","r","o">>
    [] OTHER -> <<>>

\* Path.suffix.lower()
SuffixLower(p) ==
  CASE p \in {ImgA, ImgAlt, ImgB, OutP, Missing} -> ".png"
    [] p = MacroFile -> ".json"
    [] OTHER -> ""

\* ------------------------------------------------------------------ values
Null == [null |-> TRUE]

IsInt(v) == DOMAIN v = {"int"}

IsNumStr(v) == DOMAIN v = {"numstr"}

IsStr(v) == DOMAIN v = {"str"}

IsTxt(v) == DOMAIN v = {"txt"}

IsList(v) == DOMAIN v = {"list"}

IsNull(v) == DOMAIN v = {"null"}

IsDict(v) == DOMAIN v = {"dict"}

\* float("nan"): the number that no comparison holds of.
NaN == [nan |-> TRUE]

IsNaN(v) == DOMAIN v = {"nan"}

\* dict.get(key, default)
Get(params, key, default) == IF key \in DOMAIN params THEN params[key] ELSE default

\* int(v) and float(v): a number, or the exception Python raises.
Coerce(v) ==
  IF IsInt(v) THEN [ok |-> TRUE, val |-> v.int]
  ELSE IF IsNumStr(v) THEN [ok |-> TRUE, val |-> v.numstr]
  ELSE IF IsStr(v) \/ IsTxt(v) \/ IsNaN(v) THEN [ok |-> FALSE, exc |-> "ValueError"]
  ELSE [ok |-> FALSE, exc |-> "TypeError"]

\* float(v): as int(v), but NaN is a float.
CoerceFloat(v) == IF IsNaN(v) THEN [ok |-> TRUE, val |-> NaN] ELSE Coerce(v)

\* str(v) of a value used as a path or a name.
StrOf(v) ==
  IF IsStr(v) THEN v.str
  ELSE IF IsInt(v) THEN ToString(v.int)
  ELSE IF IsNumStr(v) THEN ToString(v.numstr)
  ELSE IF IsNull(v) THEN "None"
  ELSE "[...]"

\* Python truthiness, as `x or y` uses it.
Truthy(v) ==
  IF IsInt(v) THEN v.int # 0
  ELSE IF IsStr(v) THEN v.str # ""
  ELSE IF IsTxt(v) THEN v.txt # <<>>
  ELSE IF IsList(v) THEN v.list # <<>>
  ELSE IF IsNull(v) THEN FALSE
  ELSE TRUE

\* str.lower() and str.upper() of the enum words the calls give.
Lower(s) ==
  CASE s \in {"horizontal", "Horizontal", "HORIZONTAL"} -> "horizontal"
    [] s \in {"vertical", "Vertical"} -> "vertical"
    [] s \in {"diagonal", "Diagonal"} -> "diagonal"
    [] s \in {"bogus", "Bogus"} -> "bogus"
    [] OTHER -> s

Upper(s) ==
  CASE s \in {"MIDTONES", "midtones"} -> "MIDTONES"
    [] s \in {"SHADOWS", "shadows", "Shadows"} -> "SHADOWS"
    [] s \in {"HIGHLIGHTS", "highlights"} -> "HIGHLIGHTS"
    [] s \in {"LUMA", "luma"} -> "LUMA"
    [] s \in {"AVERAGE", "average", "Average"} -> "AVERAGE"
    [] s \in {"LIGHTNESS", "lightness"} -> "LIGHTNESS"
    [] s \in {"WHITE", "white"} -> "WHITE"
    [] s \in {"BLACK", "black", "Black"} -> "BLACK"
    [] s \in {"ALPHA", "alpha"} -> "ALPHA"
    [] s \in {"SELECTION", "selection"} -> "SELECTION"
    [] s \in {"COPY", "copy"} -> "COPY"
    [] s \in {"VALUE", "value", "Value"} -> "VALUE"
    [] s \in {"RED", "red"} -> "RED"
    [] s \in {"GREEN", "green"} -> "GREEN"
    [] s \in {"BLUE", "blue"} -> "BLUE"
    [] s \in {"BOGUS", "bogus", "Bogus"} -> "BOGUS"
    [] OTHER -> s

\* str(v) of a snapshot description: its characters.
TxtOf(v) ==
  IF IsTxt(v) THEN v.txt ELSE <<"?">>

\* ------------------------------------------------------------------ outcomes
\* What an operation hands back: the world after it and a result, which is a
\* value or the exception raised.
Ok(w, value) == [w |-> w, res |-> [ok |-> TRUE, value |-> value]]

Raise(w, exc, code) == [w |-> w, res |-> [ok |-> FALSE, exc |-> exc, code |-> code]]

BridgeError(w, code) == Raise(w, "BridgeOperationError", code)

\* Statements in sequence: when r returned, rest runs on the world and the
\* value r left; when r raised, the exception leaves the enclosing function.
Then(r, rest(_, _)) == IF r.res.ok THEN rest(r.w, r.res.value) ELSE r

Exists(w, p) == p \in Dirs \/ Resolve(p) \in DOMAIN w.files

\* A plausible bug: the existence check left out.
RequirePathUnchecked(w, p) == Ok(w, p)

\* _require_path
RequirePath(w, p) ==
  IF ~Exists(w, p) THEN BridgeError(w, "NOT_FOUND") ELSE Ok(w, p)

\* The characters of the action names and snapshot labels the registry uses.
Chars(name) ==
  CASE name = "resize" -> <<"r","e","s","i","z","e">>
    [] name = "crop" -> <<"c","r","o","p">>
    [] name = "crop-center" -> <<"c","r","o","p","-","c","e","n","t","e","r">>
    [] name = "rotate" -> <<"r","o","t","a","t","e">>
    [] name = "flip" -> <<"f","l","i","p">>
    [] name = "canvas-size" -> <<"c","a","n","v","a","s","-","s","i","z","e">>
    [] name = "canvas_size" -> <<"c","a","n","v","a","s","_","s","i","z","e">>
    [] name = "color-balance" -> <<"c","o","l","o","r","-","b","a","l","a","n","c","e">>
    [] name = "color_balance" -> <<"c","o","l","o","r","_","b","a","l","a","n","c","e">>
    [] name = "desaturate" -> <<"d","e","s","a","t","u","r","a","t","e">>
    [] name = "invert" -> <<"i","n","v","e","r","t">>
    [] name = "levels" -> <<"l","e","v","e","l","s">>
    [] name = "curves" -> <<"c","u","r","v","e","s">>
    [] name = "blur" -> <<"b","l","u","r">>
    [] name = "layer-remove" -> <<"l","a","y","e","r","-","r","e","m","o","v","e">>
    [] name = "layer_remove" -> <<"l","a","y","e","r","_","r","e","m","o","v","e">>
    [] name = "layer-rename" -> <<"l","a","y","e","r","-","r","e","n","a","m","e">>
    [] name = "layer_rename" -> <<"l","a","y","e","r","_","r","e","n","a","m","e">>
    [] name = "layer-opacity" -> <<"l","a","y","e","r","-","o","p","a","c","i","t","y">>
    [] name = "layer_opacity" -> <<"l","a","y","e","r","_","o","p","a","c","i","t","y">>
    [] name = "layer-blend-mode" -> <<"l","a","y","e","r","-","b","l","e","n","d","-","m","o","d","e">>
    [] name = "layer_blend_mode" -> <<"l","a","y","e","r","_","b","l","e","n","d","_","m","o","d","e">>
    [] name = "layer-duplicate" -> <<"l","a","y","e","r","-","d","u","p","l","i","c","a","t","e">>
    [] name = "layer_duplicate" -> <<"l","a","y","e","r","_","d","u","p","l","i","c","a","t","e">>
    [] name = "layer-merge-down" -> <<"l","a","y","e","r","-","m","e","r","g","e","-","d","o","w","n">>
    [] name = "layer_merge_down" -> <<"l","a","y","e","r","_","m","e","r","g","e","_","d","o","w","n">>
    [] name = "layer-reorder" -> <<"l","a","y","e","r","-","r","e","o","r","d","e","r">>
    [] name = "layer_reorder" -> <<"l","a","y","e","r","_","r","e","o","r","d","e","r">>
    [] name = "mask-add" -> <<"m","a","s","k","-","a","d","d">>
    [] name = "mask_add" -> <<"m","a","s","k","_","a","d","d">>
    [] name = "mask-apply" -> <<"m","a","s","k","-","a","p","p","l","y">>
    [] name = "mask_apply" -> <<"m","a","s","k","_","a","p","p","l","y">>
    [] name = "text-update" -> <<"t","e","x","t","-","u","p","d","a","t","e">>
    [] name = "text_update" -> <<"t","e","x","t","_","u","p","d","a","t","e">>
    [] OTHER -> <<"?">>

\* The snapshot labels and the action names of the registry.
LabelNames ==
  {"resize", "crop", "crop-center", "rotate",
   "flip", "canvas-size", "canvas_size", "color-balance", "color_balance", "desaturate",
   "invert", "levels", "curves", "blur",
   "layer-remove", "layer_remove", "layer-rename", "layer_rename",
   "layer-opacity", "layer_opacity", "layer-blend-mode", "layer_blend_mode",
   "layer-duplicate", "layer_duplicate", "layer-merge-down", "layer_merge_down",
   "layer-reorder", "layer_reorder", "mask-add", "mask_add",
   "mask-apply", "mask_apply", "text-update", "text_update"}

\* The description of image.snapshot calls that give one.
Descriptions == {<<"v", " ", "1">>}

\* The texts the calls of this model hand to _safe_name, and _safe_name of
\* each, computed once.
Texts ==
  {<<"i","m","g">>, <<"o","u","t">>, <<>>, SnapshotWord, <<"?">>} \cup Descriptions
    \cup {AutoBefore \o Chars(n) : n \in LabelNames} \cup {AutoAfter \o Chars(n) : n \in LabelNames}

SafeTable == [t \in Texts |-> SafeName(t)]

SafeNameOf(text) == IF text \in Texts THEN SafeTable[text] ELSE SafeName(text)

\* ------------------------------------------------------------------ editor
\* One run of the external editor, as subprocess.run sees it: whether it
\* exceeded its timeout, its exit code, the lines of stdout followed by
\* stderr, the content it wrote to the output file (none: the empty set) and
\* the whole seconds it took.  A line is [marker, body]: whether it starts
\* with HARNESS_JSON:, and what follows the marker once stripped: nothing,
\* text that is no JSON, or a JSON object.
EmptyBody == [empty |-> TRUE]

BadBody == [bad |-> TRUE]

JsonBody(obj) == [json |-> obj]

\* A line that does not start with the marker.
Noise == [marker |-> FALSE, body |-> EmptyBody]

\* A plausible bug: the first marker line kept instead of the last.
RECURSIVE DataLineFirst(_)
DataLineFirst(lines) ==
  IF lines = <<>> THEN {}
  ELSE IF Head(lines).marker THEN {Head(lines).body}
  ELSE DataLineFirst(Tail(lines))

\* The last line of `lines` that starts with the marker, as the loop of
\* run_python_batch keeps it; the empty set when there is none.
RECURSIVE DataLine(_)
DataLine(lines) ==
  IF lines = <<>> THEN {}
  ELSE IF lines[Len(lines)].marker THEN {lines[Len(lines)].body}
  ELSE DataLine(SubSeq(lines, 1, Len(lines) - 1))

\* run_python_batch: the parsed object, GimpExecutionError, or the
\* TimeoutExpired that subprocess.run raises and nothing here catches.
RunPythonBatch(proc) ==
  IF proc.timedOut THEN [ok |-> FALSE, exc |-> "TimeoutExpired"]
  ELSE LET data_line == DataLine(proc.lines)
       IN IF proc.returncode # 0 THEN [ok |-> FALSE, exc |-> "GimpExecutionError"]
          ELSE IF data_line = {} \/ data_line = {EmptyBody} THEN [ok |-> FALSE, exc |-> "GimpExecutionError"]
          ELSE IF data_line = {BadBody} THEN [ok |-> FALSE, exc |-> "GimpExecutionError"]
          ELSE [ok |-> TRUE, value |-> (CHOOSE b \in data_line : TRUE).json]

\* ------------------------------------------------------------------ history store
\* The world: files (resolved path -> content), snaps (snapshot path ->
\* content), hist (the "images" mapping of the history document), now (the
\* UTC second), runs (the editor runs at hand for this request), orc (those
\* still to come), sent (the editor invocations of this request), saved (the
\* images it composed and saved itself), took (its snapshots: the image, the
\* description, the snapshot file, the bytes copied and how many editor
\* invocations the request had made by then) and steps (the
\* calls of handle_method that macro.run and system.soak made within it: the
\* method and the parameters of each, its outcome, and the files and the
\* history document it left).

\* _history_load
HistoryLoad(w) == w.hist

\* _history_save
HistorySave(w, state) == [w EXCEPT !.hist = state]

\* A snapshot file's path, HISTORY_ROOT / dir / "<stamp>__<desc><ext>", by its
\* parts.  The stamp has whole seconds.
SnapshotPath(image, description, now) ==
  [dir |-> SafeNameOf(Stem(image)), stamp |-> now, desc |-> SafeNameOf(description), ext |-> SuffixLower(image)]

\* dict.setdefault(image_key, {"snapshots": [], "index": -1})
SetDefault(state, image_key) ==
  IF image_key \in DOMAIN state THEN state
  ELSE [k \in DOMAIN state \cup {image_key} |->
          IF k = image_key THEN [snapshots |-> <<>>, index |-> -1] ELSE state[k]]

\* A plausible bug: the cursor set to the length of the list.
PushPastEnd(image_state, snapshot) ==
  [snapshots |-> SubSeq(image_state.snapshots, 1, image_state.index + 1) \o <<snapshot>>,
   index |-> Len(SubSeq(image_state.snapshots, 1, image_state.index + 1) \o <<snapshot>>)]

\* A plausible bug: the new snapshot appended to the whole list.
PushKeepsForward(image_state, snapshot) ==
  [snapshots |-> image_state.snapshots \o <<snapshot>>, index |-> Len(image_state.snapshots)]

\* image_state["snapshots"][: index + 1] + [snapshot], cursor on the last.
Push(image_state, snapshot) ==
  LET kept == SubSeq(image_state.snapshots, 1, image_state.index + 1) \o <<snapshot>>
  IN [snapshots |-> kept, index |-> Len(kept) - 1]

\* shutil.copyfile(src, dst) into a map of contents.
CopyInto(store, dst, content) ==
  [k \in DOMAIN store \cup {dst} |-> IF k = dst THEN content ELSE store[k]]

\* _snapshot_image
SnapshotImage(w, image, description) ==
  IF image \in Dirs THEN Raise(w, "IsADirectoryError", "")
  ELSE IF Resolve(image) \notin DOMAIN w.files THEN Raise(w, "FileNotFoundError", "")
  ELSE With(Resolve(image), LAMBDA image_key :
       With(SnapshotPath(image, description, w.now), LAMBDA snapshot :
       With(SetDefault(HistoryLoad(w), image_key), LAMBDA state :
       With(Push(state[image_key], snapshot), LAMBDA image_state :
         Ok(HistorySave([w EXCEPT !.snaps = CopyInto(@, snapshot, w.files[image_key]),
                                  !.took = Append(@, [image |-> image_key, description |-> description,
                                                      snapshot |-> snapshot, bytes |-> w.files[image_key],
                                                      at |-> Len(w.sent)])],
                        [state EXCEPT ![image_key] = image_state]),
            [snapshot |-> snapshot, index |-> image_state.index, count |-> Len(image_state.snapshots)])))))

\* A plausible bug: the lower end of the range check off by one.
OutOfRangeBelowMinusOne(next_idx, count) == next_idx < -1 \/ next_idx >= count

\* A plausible bug: the first snapshot out of reach.
OutOfRangeAtZero(next_idx, count) == next_idx <= 0 \/ next_idx >= count

\* The range check of _undo_redo: whether next_idx is no position of the list.
OutOfRange(next_idx, count) == next_idx < 0 \/ next_idx >= count

\* list[i] of Python: positions count from 0, and a negative i counts from
\* the end.
At(list, i) == IF i >= 0 THEN list[i + 1] ELSE list[Len(list) + i + 1]

\* _undo_redo
UndoRedo(w, image, direction) ==
  With(HistoryLoad(w), LAMBDA state :
  With(Resolve(image), LAMBDA image_key :
    IF image_key \notin DOMAIN state \/ state[image_key].snapshots = <<>>
    THEN BridgeError(w, "INVALID_INPUT")
    ELSE With(state[image_key], LAMBDA image_state :
         With(image_state.index + direction, LAMBDA next_idx :
           IF OutOfRange(next_idx, Len(image_state.snapshots)) THEN BridgeError(w, "INVALID_INPUT")
           ELSE With(At(image_state.snapshots, next_idx), LAMBDA target :
                  IF target \notin DOMAIN w.snaps THEN BridgeError(w, "NOT_FOUND")
                  ELSE IF image \in Dirs THEN Raise(w, "IsADirectoryError", "")
                  ELSE Ok(HistorySave([w EXCEPT !.files = CopyInto(@, image_key, w.snaps[target])],
                                      [state EXCEPT ![image_key].index = next_idx]),
                          [image |-> image, snapshot |-> target, index |-> next_idx,
                           count |-> Len(image_state.snapshots)]))))))

\* ------------------------------------------------------------------ dispatcher
\* The `mutating` set of _run_action, as far as the registry below reaches it.
Mutating ==
  {"resize", "crop", "rotate", "flip", "canvas_size", "levels", "curves", "color_balance",
   "invert", "desaturate", "blur",
   "layer_remove", "layer_rename", "layer_opacity", "layer_blend_mode",
   "layer_duplicate", "layer_merge_down", "layer_reorder",
   "mask_add", "mask_apply", "text_update"}

\* Path(s): the empty string is the current directory.
PathOf(s) == IF s = "" THEN CwdDir ELSE s

Put(f, k, v) == [x \in DOMAIN f \cup {k} |-> IF x = k THEN v ELSE f[x]]

\* Path(str(params.get("output") or image)), of _maybe_auto_snapshot and of
\* _run_action.
OutputOr(params, image) ==
  LET given == Get(params, "output", Null)
  IN PathOf(IF Truthy(given) THEN StrOf(given) ELSE image)

\* A plausible bug: the output taken as given, with no image to fall back on.
OutputAsGiven(params, image) == PathOf(StrOf(Get(params, "output", [str |-> ""])))

\* _output_or_input
OutputOrInput(params, image) == OutputOr(params, image)

\* A plausible bug: the paths compared as they are spelled.
SameSpelling(output, image) == output = image

\* output.resolve() == image.resolve()
SameTarget(output, image) == Resolve(output) = Resolve(image)

\* _maybe_auto_snapshot
MaybeAutoSnapshot(w, image, params, label) ==
  IF SameTarget(OutputOr(params, image), image)
  THEN SnapshotImage(w, image, AutoBefore \o Chars(label))
  ELSE Ok(w, Null)

\* What the editor leaves on disk: the content of this run in the output file
\* of the script, when the script names one and the run wrote.
EditorWrites(files, payload, proc) ==
  IF proc.write # {} /\ "output" \in DOMAIN payload
  THEN CopyInto(files, Resolve(PathOf(StrOf(payload.output))), CHOOSE b \in proc.write : TRUE)
  ELSE files

\* A plausible bug: no snapshot once the editor has answered.
AfterSnapshotSkipped(w, action, payload) == Ok(w, Null)

\* The snapshot _run_action takes once the editor has answered.
AfterSnapshot(w, action, payload) ==
  IF action \in Mutating /\ "image" \in DOMAIN payload
  THEN With(PathOf(StrOf(payload.image)), LAMBDA image_path :
         IF SameTarget(OutputOr(payload, StrOf(payload.image)), image_path) /\ Exists(w, image_path)
         THEN SnapshotImage(w, image_path, AutoAfter \o Chars(action))
         ELSE Ok(w, Null))
  ELSE Ok(w, Null)

\* The curves action of _script.  A point is {x, y} or [x, y, ...]; anything
\* else, or a coordinate float() does not take, raises.
PointX(pt) == IF IsDict(pt) THEN Get(pt.dict, "x", [int |-> 0]) ELSE pt.list[1]

PointY(pt) == IF IsDict(pt) THEN Get(pt.dict, "y", [int |-> 0]) ELSE pt.list[2]

PointRaises(pt) ==
  IF ~IsDict(pt) /\ ~(IsList(pt) /\ Len(pt.list) >= 2) THEN TRUE
  ELSE ~Coerce(PointX(pt)).ok \/ ~Coerce(PointY(pt)).ok

CurvesRaises(payload) ==
  \/ Upper(StrOf(Get(payload, "channel", [str |-> "value"]))) \notin {"VALUE", "RED", "GREEN", "BLUE", "ALPHA"}
  \/ ~IsList(Get(payload, "points", [list |-> <<>>]))
  \/ Len(Get(payload, "points", [list |-> <<>>]).list) < 2
  \/ \E i \in 1..Len(payload.points.list) : PointRaises(payload.points.list[i])

\* round(x * 255) of the x normalized of a point with whole coordinates: x is
\* divided by 255 when x or y is above 1, then clamped to 0..1.
OnScale(pt) ==
  With(Coerce(PointX(pt)).val, LAMBDA x :
    IF x > 1 \/ Coerce(PointY(pt)).val > 1
    THEN (IF x < 0 THEN 0 ELSE IF x > 255 THEN 255 ELSE x)
    ELSE (IF x >= 1 THEN 255 ELSE 0))

\* white of the levels call: at least 1, and min(255, black + 1) when it
\* would not exceed black.
WhitePoint(black, largest) ==
  With(IF largest < 1 THEN 1 ELSE largest, LAMBDA white :
    IF white <= black THEN (IF black + 1 > 255 THEN 255 ELSE black + 1) ELSE white)

\* low-input and high-input of the gimp-drawable-levels call, on the 0..255
\* scale: black from the smallest x, white from the largest.
Levels(points) ==
  With({OnScale(points[i]) : i \in 1..Len(points)}, LAMBDA xs :
  With(CHOOSE x \in xs : \A other \in xs : x <= other, LAMBDA black :
    [black |-> black, white |-> WhitePoint(black, CHOOSE x \in xs : \A other \in xs : x >= other)]))

\* What the script called gimp-drawable-levels with, when it got that far.
LevelsCall(action, payload, proc) ==
  IF action = "curves" /\ ~proc.timedOut /\ proc.returncode = 0 /\ ~CurvesRaises(payload)
  THEN Levels(payload.points.list)
  ELSE Null

\* The checks the script of _script makes inside the editor on the enum
\* words it is given: whether it raises RuntimeError.
ScriptRaises(action, payload) ==
  CASE action = "color_balance" ->
         Upper(StrOf(payload.transferMode)) \notin {"SHADOWS", "MIDTONES", "HIGHLIGHTS"}
    [] action = "desaturate" -> Upper(StrOf(payload.mode)) \notin {"LUMA", "AVERAGE", "LIGHTNESS"}
    [] action = "mask_add" ->
         Upper(StrOf(payload.mode)) \notin {"WHITE", "BLACK", "ALPHA", "SELECTION", "COPY"}
    [] action = "curves" -> CurvesRaises(payload)
    [] OTHER -> FALSE

\* The run as the script makes it end: a script that raises prints no
\* structured line and saves nothing.
Answered(action, payload, proc) ==
  IF ScriptRaises(action, payload) /\ ~proc.timedOut
  THEN [proc EXCEPT !.lines = <<Noise>>, !.write = {}]
  ELSE proc

\* The world once the editor has run: the run is used up (the last run of the
\* list answers every later script too), the invocation is on record, the
\* editor has written and taken its time.
Ran(w, action, payload, proc) ==
  [w EXCEPT !.orc = IF Len(@) > 1 THEN Tail(@) ELSE @,
            !.sent = Append(@, [action |-> action, payload |-> payload,
                                levels |-> LevelsCall(action, payload, proc)]),
            !.files = EditorWrites(@, payload, proc),
            !.now = @ + proc.secs]

\* _run_action: the next editor run of the request answers the script.
RunAction(w, action, payload) ==
  With(Ran(w, action, payload, Answered(action, payload, Head(w.orc))), LAMBDA w1 :
  With(RunPythonBatch(Answered(action, payload, Head(w.orc))), LAMBDA result :
    IF ~result.ok
    THEN IF result.exc = "GimpExecutionError" THEN BridgeError(w1, "ERROR") ELSE Raise(w1, result.exc, "")
    ELSE Then(AfterSnapshot(w1, action, payload), LAMBDA w2, taken : Ok(w2, result.value))))

\* _layer_index
LayerIndex(w, params, default) ==
  With(Coerce(Get(params, "layerIndex", Get(params, "layerId", default))), LAMBDA c :
    IF c.ok THEN Ok(w, c.val) ELSE BridgeError(w, "INVALID_INPUT"))

\* ------------------------------------------------------------------ registry
\* The branches of handle_method that edit an image share one shape:
\* _require_path(image), _maybe_auto_snapshot(label), then coercions and checks
\* in source order, then _run_action(action, payload).  A step is one
\* coercion or check of such a branch.
Num(key, default) == [op |-> "num", key |-> key, dflt |-> [int |-> default], kind |-> ""]

Str(key, default) == [op |-> "str", key |-> key, dflt |-> [str |-> default], kind |-> ""]

Raw(key) == [op |-> "raw", key |-> key, dflt |-> Null, kind |-> ""]

Layer(default) == [op |-> "layer", key |-> "layerIndex", dflt |-> [int |-> default], kind |-> ""]

Check(kind) == [op |-> "check", key |-> "", dflt |-> Null, kind |-> kind]

Center == [op |-> "center", key |-> "", dflt |-> Null, kind |-> ""]

\* float(params.get(key, default))
Float(key, default) == [op |-> "float", key |-> key, dflt |-> [int |-> default], kind |-> ""]

\* str(params.get(key, default)).lower()
Lowered(key, default) == [op |-> "lower", key |-> key, dflt |-> [str |-> default], kind |-> ""]

DupPosition == [op |-> "dup", key |-> "position", dflt |-> Null, kind |-> ""]

EditMethods ==
  {"image.resize", "image.crop", "image.crop_center", "image.rotate",
   "adjust.levels", "adjust.curves", "adjust.invert", "filter.blur",
   "layer.remove", "layer.rename", "layer.opacity", "layer.blend_mode",
   "layer.merge_down", "layer.duplicate", "layer.reorder",
   "mask.add", "mask.apply", "text.update"}

\* Further editing branches: image.flip, image.canvas_size,
\* adjust.color_balance and adjust.desaturate.
FurtherEditMethods == {"image.flip", "image.canvas_size", "adjust.color_balance", "adjust.desaturate"}

EditMethod(method) ==
  CASE method = "image.flip" ->
         [label |-> "flip", action |-> "flip", steps |-> <<Lowered("axis", "horizontal"), Check("axis")>>]
    [] method = "image.canvas_size" ->
         [label |-> "canvas-size", action |-> "canvas_size",
          steps |-> <<Num("width", 0), Num("height", 0), Check("size"), Num("offsetX", 0), Num("offsetY", 0)>>]
    [] method = "adjust.color_balance" ->
         [label |-> "color-balance", action |-> "color_balance",
          steps |-> <<Str("transferMode", "MIDTONES"), Num("cyanRed", 0), Num("magentaGreen", 0),
                      Num("yellowBlue", 0), Num("layerIndex", 0)>>]
    [] method = "adjust.desaturate" ->
         [label |-> "desaturate", action |-> "desaturate",
          steps |-> <<Str("mode", "luma"), Num("layerIndex", 0)>>]
    [] method = "image.resize" ->
         [label |-> "resize", action |-> "resize",
          steps |-> <<Num("width", 0), Num("height", 0), Check("size")>>]
    [] method = "image.crop" ->
         [label |-> "crop", action |-> "crop",
          steps |-> <<Num("width", 0), Num("height", 0), Check("size"), Num("x", 0), Num("y", 0)>>]
    [] method = "image.crop_center" ->
         [label |-> "crop-center", action |-> "crop",
          steps |-> <<Num("width", 0), Num("height", 0), Check("size"), Center>>]
    [] method = "image.rotate" ->
         [label |-> "rotate", action |-> "rotate",
          steps |-> <<Num("degrees", 0), Check("degrees")>>]
    [] method = "adjust.levels" ->
         [label |-> "levels", action |-> "levels",
          steps |-> <<Num("black", 0), Num("white", 255), Num("gamma", 1), Num("layerIndex", 0)>>]
    [] method = "adjust.curves" ->
         [label |-> "curves", action |-> "curves",
          steps |-> <<Raw("points"), Check("points"), Str("channel", "value"), Num("layerIndex", 0)>>]
    [] method = "adjust.invert" ->
         [label |-> "invert", action |-> "invert", steps |-> <<Num("layerIndex", 0)>>]
    [] method = "filter.blur" ->
         [label |-> "blur", action |-> "blur", steps |-> <<Num("radius", 4), Num("layerIndex", 0)>>]
    [] method = "layer.remove" ->
         [label |-> "layer-remove", action |-> "layer_remove", steps |-> <<Num("layerIndex", -1)>>]
    [] method = "layer.rename" ->
         [label |-> "layer-rename", action |-> "layer_rename",
          steps |-> <<Str("name", ""), Check("name"), Num("layerIndex", -1)>>]
    [] method = "layer.opacity" ->
         [label |-> "layer-opacity", action |-> "layer_opacity",
          steps |-> <<Float("opacity", -1), Check("opacity"), Num("layerIndex", -1)>>]
    [] method = "layer.blend_mode" ->
         [label |-> "layer-blend-mode", action |-> "layer_blend_mode",
          steps |-> <<Str("mode", ""), Check("mode"), Num("layerIndex", -1)>>]
    [] method = "layer.merge_down" ->
         [label |-> "layer-merge-down", action |-> "layer_merge_down", steps |-> <<Num("layerIndex", -1)>>]
    [] method = "layer.duplicate" ->
         [label |-> "layer-duplicate", action |-> "layer_duplicate",
          steps |-> <<Num("layerIndex", -1), DupPosition>>]
    [] method = "layer.reorder" ->
         [label |-> "layer-reorder", action |-> "layer_reorder",
          steps |-> <<Num("layerIndex", -1), Num("index", 0)>>]
    [] method = "mask.add" ->
         [label |-> "mask-add", action |-> "mask_add", steps |-> <<Layer(-1), Str("mode", "WHITE")>>]
    [] method = "mask.apply" ->
         [label |-> "mask-apply", action |-> "mask_apply", steps |-> <<Layer(-1)>>]
    [] method = "text.update" ->
         [label |-> "text-update", action |-> "text_update", steps |-> <<Str("text", ""), Layer(-1)>>]

\* A plausible bug: curves of fewer than two points refused by the registry.
RefusedShortCurves(kind, payload) ==
  CASE kind = "size" -> payload.width.int <= 0 \/ payload.height.int <= 0
    [] kind = "degrees" -> payload.degrees.int \notin {90, 180, 270}
    [] kind = "axis" -> payload.axis.str \notin {"horizontal", "vertical"}
    [] kind = "opacity" -> IsInt(payload.opacity) /\ (payload.opacity.int < 0 \/ payload.opacity.int > 100)
    [] kind = "name" -> payload.name.str = ""
    [] kind = "mode" -> payload.mode.str = ""
    [] kind = "points" -> ~IsList(payload.points) \/ Len(payload.points.list) < 2

\* The range checks of the branches: whether the payload so far is refused.
Refused(kind, payload) ==
  CASE kind = "size" -> payload.width.int <= 0 \/ payload.height.int <= 0
    [] kind = "degrees" -> payload.degrees.int \notin {90, 180, 270}
    [] kind = "axis" -> payload.axis.str \notin {"horizontal", "vertical"}
    [] kind = "opacity" -> IsInt(payload.opacity) /\ (payload.opacity.int < 0 \/ payload.opacity.int > 100)
    [] kind = "name" -> payload.name.str = ""
    [] kind = "mode" -> payload.mode.str = ""
    [] kind = "points" -> ~IsList(payload.points)

\* A plausible bug: the offset rounded up.
CentreOffsetRoundedUp(src, size) == (src - size + 1) \div 2

\* int((src - size) // 2)
CentreOffset(src, size) == (src - size) \div 2

\* The inspect call and the centring of image.crop_center.
CropCenter(w, payload) ==
  Then(RunAction(w, "inspect", [image |-> payload.image]), LAMBDA w1, info :
    IF payload.width.int > info.width \/ payload.height.int > info.height
    THEN BridgeError(w1, "INVALID_INPUT")
    ELSE Ok(w1, Put(Put(payload, "x", [int |-> CentreOffset(info.width, payload.width.int)]),
                    "y", [int |-> CentreOffset(info.height, payload.height.int)])))

\* position = int(params.get("position", int(params.get("layerIndex", 0)) + 1))
\* of layer.duplicate: the default is computed whether or not it is used.
DuplicatePosition(w, params, payload) ==
  With(Coerce(Get(params, "layerIndex", [int |-> 0])), LAMBDA base :
    IF ~base.ok THEN Raise(w, base.exc, "")
    ELSE With(Coerce(Get(params, "position", [int |-> base.val + 1])), LAMBDA c :
           IF ~c.ok THEN Raise(w, c.exc, "") ELSE Ok(w, Put(payload, "position", [int |-> c.val]))))

\* One coercion or check of an editing branch.
Step(w, params, payload, st) ==
  CASE st.op = "num" ->
         With(Coerce(Get(params, st.key, st.dflt)), LAMBDA c :
           IF c.ok THEN Ok(w, Put(payload, st.key, [int |-> c.val])) ELSE Raise(w, c.exc, ""))
    [] st.op = "float" ->
         With(CoerceFloat(Get(params, st.key, st.dflt)), LAMBDA c :
           IF ~c.ok THEN Raise(w, c.exc, "")
           ELSE Ok(w, Put(payload, st.key,
                          IF IsNaN(Get(params, st.key, st.dflt)) THEN NaN ELSE [int |-> c.val])))
    [] st.op = "str" -> Ok(w, Put(payload, st.key, [str |-> StrOf(Get(params, st.key, st.dflt))]))
    [] st.op = "lower" -> Ok(w, Put(payload, st.key, [str |-> Lower(StrOf(Get(params, st.key, st.dflt)))]))
    [] st.op = "raw" -> Ok(w, Put(payload, st.key, Get(params, st.key, st.dflt)))
    [] st.op = "layer" ->
         Then(LayerIndex(w, params, st.dflt), LAMBDA w1, index :
           Ok(w1, Put(payload, "layerIndex", [int |-> index])))
    [] st.op = "check" ->
         IF Refused(st.kind, payload) THEN BridgeError(w, "INVALID_INPUT") ELSE Ok(w, payload)
    [] st.op = "center" -> CropCenter(w, payload)
    [] st.op = "dup" -> DuplicatePosition(w, params, payload)

RECURSIVE RunSteps(_, _, _, _)
RunSteps(w, params, payload, steps) ==
  IF steps = <<>> THEN Ok(w, payload)
  ELSE Then(Step(w, params, payload, Head(steps)), LAMBDA w1, payload1 :
         RunSteps(w1, params, payload1, Tail(steps)))

\* params["image"] as a path that exists, the opening of most branches.
ImageOf(w, params) == RequirePath(w, PathOf(StrOf(Get(params, "image", [str |-> ""]))))

\* One editing branch of handle_method.
EditBranch(w, method, params) ==
  Then(ImageOf(w, params), LAMBDA w1, image :
  Then(MaybeAutoSnapshot(w1, image, params, EditMethod(method).label), LAMBDA w2, taken :
  Then(RunSteps(w2, params, [image |-> [str |-> image]], EditMethod(method).steps), LAMBDA w3, payload :
    RunAction(w3, EditMethod(method).action,
              Put(payload, "output", [str |-> OutputOrInput(params, image)])))))

EmptyDict == <<>>

\* ------------------------------------------------------------------ montage
\* [_require_path(str(p)) for p in images]: the paths, or the first failure.
RECURSIVE RequirePaths(_, _)
RequirePaths(w, images) ==
  IF images = <<>> THEN Ok(w, <<>>)
  ELSE Then(RequirePath(w, PathOf(StrOf(Head(images)))), LAMBDA w1, path :
       Then(RequirePaths(w1, Tail(images)), LAMBDA w2, paths : Ok(w2, <<path>> \o paths)))

\* int(params.get(key, 0)) of _montage_grid.
IntParam(w, params, key) ==
  With(Coerce(Get(params, key, [int |-> 0])), LAMBDA c :
    IF c.ok THEN Ok(w, c.val) ELSE Raise(w, c.exc, ""))

\* str(...).strip().lower() of the fit modes the calls give.
FitMode(v) ==
  CASE StrOf(v) \in {"cover", "Cover", " cover"} -> "cover"
    [] StrOf(v) \in {"contain", "CONTAIN"} -> "contain"
    [] OTHER -> StrOf(v)

\* A plausible bug: a gutter counted after the last tile too.
CanvasSideWithTrailingGutter(count, tile, gutter) == count * (tile + gutter)

\* cols * tile_w + (cols - 1) * gutter, and the same of rows.
CanvasSide(count, tile, gutter) == count * tile + (count - 1) * gutter

\* The paste of tile i: its source and the rectangle it covers.
Paste(i, source_path, cols, tile_w, tile_h, gutter) ==
  [source |-> source_path,
   x |-> (i % cols) * (tile_w + gutter), y |-> (i \div cols) * (tile_h + gutter),
   width |-> tile_w, height |-> tile_h]

\* The canvas and the loop over enumerate(image_paths).
Compose(image_paths, rows, cols, tile_w, tile_h, gutter) ==
  [width |-> CanvasSide(cols, tile_w, gutter), height |-> CanvasSide(rows, tile_h, gutter),
   tiles |-> [n \in 1 .. Len(image_paths) |-> Paste(n - 1, image_paths[n], cols, tile_w, tile_h, gutter)]]

\* canvas.save(output) and the result; the image library takes the format
\* from the extension and refuses a path without one.
SaveCanvas(w, output, canvas, result) ==
  IF SuffixLower(output) = "" THEN Raise(w, "ValueError", "")
  ELSE Ok([w EXCEPT !.files = CopyInto(@, Resolve(output), 1),
                    !.saved = Append(@, [output |-> output, canvas |-> canvas])],
          result)

\* _montage_grid, with the image library at hand.
MontageGrid(w, params) ==
  With(Get(params, "images", Null), LAMBDA images :
    IF ~IsList(images) \/ images.list = <<>> THEN BridgeError(w, "INVALID_INPUT")
    ELSE Then(RequirePaths(w, images.list), LAMBDA w1, image_paths :
         Then(IntParam(w1, params, "rows"), LAMBDA w2, rows :
         Then(IntParam(w2, params, "cols"), LAMBDA w3, cols :
           IF rows <= 0 \/ cols <= 0 \/ Len(image_paths) # rows * cols THEN BridgeError(w3, "INVALID_INPUT")
           ELSE Then(IntParam(w3, params, "tileWidth"), LAMBDA w4, tile_w :
                Then(IntParam(w4, params, "tileHeight"), LAMBDA w5, tile_h :
                  IF tile_w <= 0 \/ tile_h <= 0 THEN BridgeError(w5, "INVALID_INPUT")
                  ELSE Then(IntParam(w5, params, "gutter"), LAMBDA w6, gutter :
                         IF gutter < 0
                         THEN BridgeError(w6, "INVALID_INPUT")
                         ELSE IF FitMode(Get(params, "fitMode", [str |-> "cover"])) \notin {"cover", "contain"}
                         THEN BridgeError(w6, "INVALID_INPUT")
                         ELSE SaveCanvas(w6, PathOf(StrOf(Get(params, "output", [str |-> ""]))),
                                         Compose(image_paths, rows, cols, tile_w, tile_h, gutter),
                                         [output |-> PathOf(StrOf(Get(params, "output", [str |-> ""]))),
                                          rows |-> rows, cols |-> cols, tileWidth |-> tile_w,
                                          tileHeight |-> tile_h, gutter |-> gutter]))))))))

\* The steps a macro file holds, and json.loads(macro_path.read_text()).
MacroFileSteps ==
  << [dict |-> [method |-> [str |-> "image.rotate"],
                params |-> [dict |-> [degrees |-> [int |-> 90]]]]] >>

ReadJson(p) ==
  IF Resolve(p) = MacroFile THEN [ok |-> TRUE, val |-> [list |-> MacroFileSteps]]
  ELSE [ok |-> FALSE, exc |-> "JSONDecodeError"]

\* step_params.setdefault(k, v) for every item of `defaults`.
SetDefaults(step_params, defaults) ==
  [k \in DOMAIN step_params \cup DOMAIN defaults |->
     IF k \in DOMAIN step_params THEN step_params[k] ELSE defaults[k]]

\* The methods of handle_method that read an image through the editor and
\* write nothing.
InspectMethods == {"image.open", "image.inspect", "image.validate", "layer.list"}

\* ACTION_METHODS, the list system.actions returns.
ACTION_METHODS ==
  {"system.health", "system.version", "system.actions", "system.doctor", "system.soak",
   "project.plan_edit", "image.inspect", "image.validate", "image.diff", "image.snapshot",
   "image.undo", "image.redo", "image.open", "image.save", "image.clone", "image.resize",
   "image.crop", "image.crop_center", "image.rotate", "image.flip", "image.canvas_size",
   "image.montage_grid", "image.export", "adjust.brightness_contrast", "adjust.levels",
   "adjust.curves", "adjust.hue_saturation", "adjust.color_balance", "adjust.color_temperature",
   "adjust.invert", "adjust.desaturate", "filter.blur", "filter.gaussian_blur", "filter.sharpen",
   "filter.unsharp_mask", "filter.noise_reduction", "layer.list", "layer.add", "layer.remove",
   "layer.rename", "layer.opacity", "layer.blend_mode", "layer.duplicate", "layer.merge_down",
   "layer.reorder", "selection.all", "selection.none", "selection.invert", "selection.feather",
   "selection.rectangle", "selection.ellipse", "mask.add", "mask.apply", "text.add", "text.update",
   "annotation.stroke_selection", "macro.run", "preset.list", "preset.apply"}

\* The names the branches of handle_method compare its method with.
Branches ==
  {"system.health", "system.version", "system.actions", "system.doctor", "system.soak",
   "project.plan_edit", "image.open", "image.save", "image.clone", "image.inspect",
   "image.validate", "image.diff", "image.snapshot", "image.undo", "image.redo", "image.resize",
   "image.crop", "image.crop_center", "image.rotate", "image.flip", "image.canvas_size",
   "image.export", "image.montage_grid", "adjust.brightness_contrast", "adjust.levels",
   "adjust.hue_saturation", "adjust.color_balance", "adjust.curves", "adjust.color_temperature",
   "adjust.invert", "adjust.desaturate", "filter.blur", "filter.gaussian_blur", "filter.sharpen",
   "filter.unsharp_mask", "filter.noise_reduction", "layer.list", "layer.add", "layer.remove",
   "layer.rename", "layer.opacity", "layer.blend_mode", "layer.merge_down", "layer.duplicate",
   "layer.reorder", "selection.all", "selection.none", "selection.invert", "selection.feather",
   "selection.rectangle", "selection.ellipse", "mask.add", "mask.apply", "text.add",
   "text.update", "annotation.stroke_selection", "macro.run", "preset.list", "preset.apply"}

\* method_map of project.plan_edit.
method_map ==
  "resize" :> "image.resize" @@ "crop" :> "image.crop" @@ "crop-center" :> "image.crop_center" @@
  "rotate" :> "image.rotate" @@ "flip" :> "image.flip" @@ "canvas-size" :> "image.canvas_size" @@
  "montage-grid" :> "image.montage_grid" @@
  "brightness-contrast" :> "adjust.brightness_contrast" @@ "levels" :> "adjust.levels" @@
  "curves" :> "adjust.curves" @@ "hue-saturation" :> "adjust.hue_saturation" @@
  "color-balance" :> "adjust.color_balance" @@ "color-temperature" :> "adjust.color_temperature" @@
  "invert" :> "adjust.invert" @@ "desaturate" :> "adjust.desaturate" @@ "blur" :> "filter.blur" @@
  "gaussian-blur" :> "filter.gaussian_blur" @@ "sharpen" :> "filter.sharpen" @@
  "unsharp-mask" :> "filter.unsharp_mask" @@ "noise-reduction" :> "filter.noise_reduction" @@
  "layer-add" :> "layer.add" @@ "layer-remove" :> "layer.remove" @@
  "layer-rename" :> "layer.rename" @@ "layer-opacity" :> "layer.opacity" @@
  "layer-blend-mode" :> "layer.blend_mode" @@ "layer-duplicate" :> "layer.duplicate" @@
  "layer-merge-down" :> "layer.merge_down" @@ "layer-reorder" :> "layer.reorder" @@
  "select-all" :> "selection.all" @@ "select-none" :> "selection.none" @@
  "invert-selection" :> "selection.invert" @@ "feather-selection" :> "selection.feather" @@
  "select-rectangle" :> "selection.rectangle" @@ "select-ellipse" :> "selection.ellipse" @@
  "add-layer-mask" :> "mask.add" @@ "apply-layer-mask" :> "mask.apply" @@
  "add-text" :> "text.add" @@ "update-text" :> "text.update" @@
  "stroke-selection" :> "annotation.stroke_selection"

\* str.strip() on the action names the calls give.
Strip(s) ==
  CASE s \in {" rotate ", "rotate "} -> "rotate"
    [] s = " " -> ""
    [] OTHER -> s

\* The branches of handle_method this registry spells out.
KnownMethods ==
  {"system.health", "system.version", "system.actions", "image.snapshot", "image.undo",
   "image.redo", "image.save", "image.export", "image.clone", "image.montage_grid", "macro.run",
   "system.soak"}
    \cup InspectMethods \cup EditMethods \cup FurtherEditMethods

RECURSIVE HandleMethod(_, _, _)
RECURSIVE RunMacro(_, _, _, _, _)
RECURSIVE SoakLoop(_, _, _, _, _)

\* A plausible bug: the params of the macro written over those of the step.
StepParamsUpdated(step, image, macro_params) ==
  SetDefaults(macro_params,
              SetDefaults(Get(step.dict, "params", [dict |-> EmptyDict]).dict, [image |-> [str |-> image]]))

\* step_params of one step of macro.run: its own params, then the image, then
\* the params of the macro, each only where the key is not there yet.
StepParams(step, image, macro_params) ==
  SetDefaults(SetDefaults(Get(step.dict, "params", [dict |-> EmptyDict]).dict, [image |-> [str |-> image]]),
              macro_params)

\* A plausible bug: each result put in front of the ones before it.
CollectInFront(outputs, step_method, result) ==
  <<[method |-> step_method, result |-> result]>> \o outputs

\* outputs.append({"method": step_method, "result": ...})
Collect(outputs, step_method, result) ==
  Append(outputs, [method |-> step_method, result |-> result])

\* The call of one step, on record in the world it leaves.
RunStep(w, step_method, step_params) ==
  With(HandleMethod(w, step_method, step_params), LAMBDA r :
    [r EXCEPT !.w.steps = Append(@, [method |-> step_method, params |-> step_params, res |-> r.res,
                                     files |-> r.w.files, hist |-> r.w.hist])])

\* A plausible bug: the image checked written over the one the params give.
PlanMergedChecked(image, action_params) == Put(action_params, "image", [str |-> image])

\* merged of project.plan_edit: the image checked, then the params given
\* written over it.
PlanMerged(image, action_params) == SetDefaults(action_params, [image |-> [str |-> image]])

\* project.plan_edit.  params.get("params", {}) or {} is a dict, or something
\* falsy, or a number, which dict.update cannot iterate.
PlanEdit(w, params) ==
  Then(ImageOf(w, params), LAMBDA w1, image :
    With(Strip(StrOf(Get(params, "action", [str |-> ""]))), LAMBDA action :
    With(Get(params, "params", [dict |-> EmptyDict]), LAMBDA action_params :
      IF action \notin DOMAIN method_map THEN BridgeError(w1, "INVALID_INPUT")
      ELSE IF IsDict(action_params) THEN RunStep(w1, method_map[action], PlanMerged(image, action_params.dict))
      ELSE IF ~Truthy(action_params) THEN RunStep(w1, method_map[action], PlanMerged(image, EmptyDict))
      ELSE Raise(w1, "TypeError", ""))))

\* The loop of macro.run over the steps still to run.
RunMacro(w, image, macro_params, steps, outputs) ==
  IF steps = <<>> THEN Ok(w, [steps |-> outputs])
  ELSE IF ~IsDict(Head(steps)) \/ "method" \notin DOMAIN Head(steps).dict THEN BridgeError(w, "INVALID_INPUT")
  ELSE IF ~IsDict(Get(Head(steps).dict, "params", [dict |-> EmptyDict])) THEN Raise(w, "TypeError", "")
  ELSE Then(RunStep(w, StrOf(Head(steps).dict.method), StepParams(Head(steps), image, macro_params)),
            LAMBDA w1, result :
              RunMacro(w1, image, macro_params, Tail(steps),
                       Collect(outputs, StrOf(Head(steps).dict.method), result)))

\* macro_params of macro.run: params["params"] when it is a non-empty dict.
MacroParams(params) ==
  With(Get(params, "params", [dict |-> EmptyDict]), LAMBDA given :
    IF IsDict(given) /\ given.dict # EmptyDict THEN given.dict ELSE EmptyDict)

\* The steps of macro.run: the list given, or the content of the file named.
MacroSteps(w, macro) ==
  IF IsList(macro) THEN Ok(w, macro.list)
  ELSE Then(RequirePath(w, PathOf(StrOf(macro))), LAMBDA w1, macro_path :
         With(ReadJson(macro_path), LAMBDA loaded :
           IF ~loaded.ok THEN Raise(w1, loaded.exc, "")
           ELSE IF ~IsList(loaded.val) THEN BridgeError(w1, "INVALID_INPUT")
           ELSE Ok(w1, loaded.val.list)))

\* The macro.run branch.
MacroRun(w, params) ==
  Then(ImageOf(w, params), LAMBDA w1, image :
  Then(MacroSteps(w1, Get(params, "macro", Null)), LAMBDA w2, steps :
    RunMacro(w2, image, MacroParams(params), steps, <<>>)))

\* A plausible bug: only the errors of the registry caught.
CaughtBridgeErrorsOnly(exc) == exc = "BridgeOperationError"

\* except Exception: every exception but those that derive from BaseException
\* alone.
Caught(exc) == exc \notin {"KeyboardInterrupt", "SystemExit", "GeneratorExit"}

\* max(1, iterations)
Rounds(iterations) == IF iterations < 1 THEN 1 ELSE iterations

\* The loop of system.soak with `rounds` rounds to go.
SoakLoop(w, action, action_params, rounds, failures) ==
  IF rounds = 0 THEN Ok(w, failures)
  ELSE With(RunStep(w, action, IF action = "system.health" THEN EmptyDict ELSE action_params), LAMBDA r :
         IF r.res.ok THEN SoakLoop(r.w, action, action_params, rounds - 1, failures)
         ELSE IF Caught(r.res.exc) THEN SoakLoop(r.w, action, action_params, rounds - 1, failures + 1)
         ELSE r)

\* params.get("action_params", {}) or {}
ActionParams(params) ==
  With(Get(params, "action_params", [dict |-> EmptyDict]), LAMBDA given :
    IF IsDict(given) /\ given.dict # EmptyDict THEN given.dict ELSE EmptyDict)

\* system.soak
Soak(w, params) ==
  Then(IntParam(w, Put(params, "iterations", Get(params, "iterations", [int |-> 100])), "iterations"),
       LAMBDA w1, iterations :
         With(StrOf(Get(params, "action", [str |-> "system.health"])), LAMBDA action :
           Then(SoakLoop(w1, action, ActionParams(params), Rounds(iterations), 0), LAMBDA w2, failures :
             Ok(w2, [iterations |-> iterations, action |-> action, failures |-> failures,
                     stable |-> failures = 0]))))

\* image.clone
CloneBranch(w, params) ==
  Then(RequirePath(w, PathOf(StrOf(Get(params, "source", [str |-> ""])))), LAMBDA w1, source :
  With(PathOf(StrOf(Get(params, "target", [str |-> ""]))), LAMBDA target :
    IF Exists(w1, target) /\ ~Truthy(Get(params, "overwrite", Null)) THEN BridgeError(w1, "INVALID_INPUT")
    ELSE IF source \in Dirs THEN Raise(w1, "IsADirectoryError", "")
    ELSE Ok([w1 EXCEPT !.files = CopyInto(@, Resolve(target), w1.files[Resolve(source)])],
            [source |-> source, target |-> target])))

\* image.save and image.export
ExportBranch(w, params) ==
  Then(ImageOf(w, params), LAMBDA w1, image :
    IF StrOf(Get(params, "output", [str |-> ""])) = "" THEN BridgeError(w1, "INVALID_INPUT")
    ELSE RunAction(w1, "export",
                   [image |-> [str |-> image], output |-> [str |-> StrOf(Get(params, "output", [str |-> ""]))]]))

\* The branches that inspect.
InspectBranch(w, method, params) ==
  Then(ImageOf(w, params), LAMBDA w1, image :
    RunAction(w1, IF method = "layer.list" THEN "layer_list" ELSE "inspect", [image |-> [str |-> image]]))

\* image.snapshot, image.undo and image.redo
HistoryBranch(w, method, params) ==
  Then(ImageOf(w, params), LAMBDA w1, image :
    IF method = "image.snapshot"
    THEN SnapshotImage(w1, image, TxtOf(Get(params, "description", [txt |-> SnapshotWord])))
    ELSE UndoRedo(w1, image, IF method = "image.undo" THEN -1 ELSE 1))

\* handle_method
HandleMethod(w, method, params) ==
  CASE method = "system.health" -> Ok(w, [ok |-> TRUE])
    [] method = "system.version" -> Ok(w, [packageVersion |-> "version"])
    [] method = "system.actions" -> Ok(w, [actions |-> ACTION_METHODS])
    [] method = "project.plan_edit" -> PlanEdit(w, params)
    [] method \in InspectMethods -> InspectBranch(w, method, params)
    [] method \in {"image.save", "image.export"} -> ExportBranch(w, params)
    [] method = "image.clone" -> CloneBranch(w, params)
    [] method \in {"image.snapshot", "image.undo", "image.redo"} -> HistoryBranch(w, method, params)
    [] method \in EditMethods \cup FurtherEditMethods -> EditBranch(w, method, params)
    [] method = "macro.run" -> MacroRun(w, params)
    [] method = "image.montage_grid" -> MontageGrid(w, params)
    [] method = "system.soak" -> Soak(w, params)
    [] OTHER -> BridgeError(w, "INVALID_INPUT")

\* ------------------------------------------------------------------ state
\* files, snaps, hist, now: the world (see the history store).  last: the
\* call of handle_method that the latest step made, if it made one: its method
\* and parameters, the editor runs at hand for it, its result, the editor invocations it made, the snapshots
\* it took, the images it composed, the macro steps it ran, and where the history entry of its image stood before it (the
\* cursor and the length of the list; -1 and 0 without an entry).  rt: the progress of
\* a run of consecutive image.undo calls followed by image.redo calls.
\* http: the latest HTTP exchange.  cli: the bridge process that the command
\* line started and the outcome of its latest command.  reqs: the two requests
\* that the server's threads are serving at the same time, each with the local
\* variables of _snapshot_image or _undo_redo as far as it has run.  batch: the
\* latest editor process handed to run_python_batch on its own, by its stdout
\* and stderr lines and its exit code, and what run_python_batch made of it.
VARIABLES files, snaps, hist, now, last, rt, http, cli, reqs, batch

vars == <<files, snaps, hist, now, last, rt, http, cli, reqs, batch>>

\* ------------------------------------------------------------------ editor runs
\* What the editor reports of an image: the size that image.crop_center reads.
Inspected == [width |-> 4, height |-> 2]

\* A run that succeeds and leaves content b in the output.
ProcOk(b) ==
  [timedOut |-> FALSE, returncode |-> 0, lines |-> <<Noise, [marker |-> TRUE, body |-> JsonBody(Inspected)]>>,
   write |-> {b}, secs |-> 0]

\* A run that succeeds on an image of the given size.
ProcSized(width, height, b) ==
  [timedOut |-> FALSE, returncode |-> 0,
   lines |-> <<Noise, [marker |-> TRUE, body |-> JsonBody([width |-> width, height |-> height])]>>,
   write |-> {b}, secs |-> 0]

\* Runs that fail: a non-zero exit after a well-formed line, no structured
\* line, a structured line that is no JSON, and a timeout.
ProcExit ==
  [timedOut |-> FALSE, returncode |-> 1, lines |-> <<[marker |-> TRUE, body |-> JsonBody(Inspected)]>>,
   write |-> {}, secs |-> 0]

ProcNoLine == [timedOut |-> FALSE, returncode |-> 0, lines |-> <<Noise>>, write |-> {}, secs |-> 0]

ProcBadJson ==
  [timedOut |-> FALSE, returncode |-> 0, lines |-> <<[marker |-> TRUE, body |-> BadBody]>>,
   write |-> {}, secs |-> 0]

ProcTimeout == [timedOut |-> TRUE, returncode |-> 0, lines |-> <<>>, write |-> {}, secs |-> 0]

\* The contents the editor writes.
Bytes == {0, 1}

\* ------------------------------------------------------------------ calls
World(orc) ==
  [files |-> files, snaps |-> snaps, hist |-> hist, now |-> now, runs |-> orc, orc |-> orc, sent |-> <<>>,
   saved |-> <<>>, took |-> <<>>, steps |-> <<>>]

\* The bounds of the model: the clock and the length of every snapshot list.
Bounded(w) ==
  /\ w.now <= MaxClock
  /\ \A k \in DOMAIN w.hist : Len(w.hist[k].snapshots) <= MaxSnaps

\* The snapshot files that some list of the history document names.  The code
\* reads a snapshot file only through a list (_undo_redo), so the content of a
\* file that no list names any more is not part of the state.
Referenced(w) ==
  {q \in DOMAIN w.snaps :
     \E k \in DOMAIN w.hist : \E n \in 1 .. Len(w.hist[k].snapshots) : w.hist[k].snapshots[n] = q}

\* The cursor and the length of the history entry of the image that params
\* names.
Prior(params) ==
  With(Resolve(PathOf(StrOf(Get(params, "image", [str |-> ""])))), LAMBDA key :
    IF key \in DOMAIN hist THEN [index |-> hist[key].index, count |-> Len(hist[key].snapshots)]
    ELSE [index |-> -1, count |-> 0])

\* handle_method(method, params) with the editor runs orc at hand.
Call(method, params, orc) ==
  \E out \in {HandleMethod(World(orc), method, params)} :
     /\ Bounded(out.w)
     /\ files' = out.w.files
     /\ snaps' = [q \in Referenced(out.w) |-> out.w.snaps[q]]
     /\ hist' = out.w.hist
     /\ now' = out.w.now
     /\ last' = [method |-> method, params |-> params, runs |-> out.w.runs, res |-> out.res,
                 sent |-> out.w.sent, saved |-> out.w.saved, took |-> out.w.took, steps |-> out.w.steps, prior |-> Prior(params)]

NoRun == <<ProcNoLine>>

Img(p) == [image |-> [str |-> p]]

\* The images of the calls on the history: an image and a second spelling of
\* its path.
Images == {ImgA, ImgAlt}

\* In-place calls of image.resize, with a valid, an invalid and an uncoercible
\* width.
Widths == {[int |-> 2], [int |-> 0], [str |-> "abc"]}

ResizeParams == {SetDefaults(Img(ImgA), [width |-> s, height |-> [int |-> 2]]) : s \in Widths}

\* The editor runs of such a call: a run that succeeds, one that exits
\* non-zero and one that times out.
Oracles == {<<ProcOk(b)>> : b \in Bytes} \cup {<<ProcExit>>, <<ProcTimeout>>}

\* ------------------------------------------------------------------ round trips
\* rt follows a run of consecutive image.undo calls on one image that starts
\* with the cursor on the last of n >= 2 snapshots, and the image.redo calls
\* that follow it: the list and n at the start, the calls counted, and whether
\* each of them succeeded.
NoTrip == [image |-> "", n |-> 0, list |-> <<>>, undos |-> 0, redos |-> 0, ok |-> TRUE]

Track(method, params, res) ==
  LET key == Resolve(PathOf(StrOf(Get(params, "image", [str |-> ""]))))
      atTip == key \in DOMAIN hist /\ Len(hist[key].snapshots) >= 2
                 /\ hist[key].index = Len(hist[key].snapshots) - 1
  IN IF method = "image.undo" /\ rt.n > 0 /\ rt.image = key /\ rt.redos = 0 /\ rt.undos < rt.n - 1
     THEN [rt EXCEPT !.undos = @ + 1, !.ok = @ /\ res.ok]
     ELSE IF method = "image.undo" /\ atTip
     THEN [image |-> key, n |-> Len(hist[key].snapshots), list |-> hist[key].snapshots,
           undos |-> 1, redos |-> 0, ok |-> res.ok]
     ELSE IF method = "image.redo" /\ rt.n > 0 /\ rt.image = key /\ rt.undos = rt.n - 1 /\ rt.redos < rt.n - 1
     THEN [rt EXCEPT !.redos = @ + 1, !.ok = @ /\ res.ok]
     ELSE NoTrip

\* ------------------------------------------------------------------ actions
NoCall ==
  [method |-> "", params |-> EmptyDict, runs |-> <<>>, res |-> [ok |-> TRUE, value |-> Null], sent |-> <<>>,
   saved |-> <<>>, took |-> <<>>,
   steps |-> <<>>, prior |-> [index |-> -1, count |-> 0]]

\* A second passes.
Tick ==
  /\ now < MaxClock
  /\ now' = now + 1
  /\ last' = NoCall
  /\ UNCHANGED <<files, snaps, hist, rt, http, cli, reqs, batch>>

\* image.snapshot with the default description.
SnapshotParams == {Img(p) : p \in Images}

Snapshot ==
  \E params \in SnapshotParams :
    /\ Call("image.snapshot", params, NoRun)
    /\ UNCHANGED <<rt, http, cli, reqs, batch>>

Undo ==
  \E p \in Images :
    /\ Call("image.undo", Img(p), NoRun)
    /\ UNCHANGED <<rt, http, cli, reqs, batch>>

Redo ==
  \E p \in Images :
    /\ Call("image.redo", Img(p), NoRun)
    /\ UNCHANGED <<rt, http, cli, reqs, batch>>

Edit ==
  \E params \in ResizeParams, orc \in Oracles :
    /\ Call("image.resize", params, orc)
    /\ UNCHANGED <<rt, http, cli, reqs, batch>>


NoExchange == [request |-> Null, response |-> Null, client |-> Null]

\* No bridge process, no pid file, no command yet.  child is the process that
\* bridge start spawned: the port it serves and whether it is alive (port 0:
\* none).  pidFile says whether bridge.pid exists; it names child.  started is
\* the port of the latest bridge start that succeeded and whose bridge is still
\* up (0: none).
NoBridge ==
  [child |-> [port |-> 0, alive |-> FALSE], pidFile |-> FALSE, started |-> 0,
   out |-> [command |-> "", port |-> 0, env |-> 0, target |-> 0, status |-> ""]]

\* No editor process yet.
NoBatch ==
  [ran |-> FALSE, stdout |-> <<>>, stderr |-> <<>>, returncode |-> 0, result |-> [ok |-> FALSE, exc |-> ""]]

\* A thread that serves no request.
Idle ==
  [pc |-> "idle", method |-> "", image |-> "", description |-> <<>>, state |-> <<>>, next_idx |-> 0, path |-> Null,
   res |-> [ok |-> TRUE, value |-> Null], loaded |-> 0, saved |-> 0]

\* The threads of the server that the model follows.
Threads == {1, 2}

\* No request in flight.  start is the history document when the two requests
\* arrived, clock counts the loads and saves of the document since then.
NoRequests == [start |-> <<>>, clock |-> 0, th |-> [t \in Threads |-> Idle]]

Init ==
  /\ files = (ImgA :> 0 @@ ImgB :> 1 @@ MacroFile :> 0)
  /\ snaps = <<>>
  /\ hist = <<>>
  /\ now = 0
  /\ last = NoCall
  /\ rt = NoTrip
  /\ http = NoExchange
  /\ cli = NoBridge
  /\ reqs = NoRequests
  /\ batch = NoBatch

Next == Tick \/ Snapshot \/ Undo \/ Redo \/ Edit

Spec == Init /\ [][Next]_vars

\* The same calls with rt following them.
TripSnapshot ==
  \E params \in SnapshotParams :
    /\ Call("image.snapshot", params, NoRun)
    /\ rt' = Track("image.snapshot", params, last'.res)
    /\ UNCHANGED <<http, cli, reqs, batch>>

TripUndo ==
  \E p \in Images :
    /\ Call("image.undo", Img(p), NoRun)
    /\ rt' = Track("image.undo", Img(p), last'.res)
    /\ UNCHANGED <<http, cli, reqs, batch>>

TripRedo ==
  \E p \in Images :
    /\ Call("image.redo", Img(p), NoRun)
    /\ rt' = Track("image.redo", Img(p), last'.res)
    /\ UNCHANGED <<http, cli, reqs, batch>>

TripEdit ==
  \E params \in ResizeParams, orc \in Oracles :
    /\ Call("image.resize", params, orc)
    /\ rt' = Track("image.resize", params, last'.res)
    /\ UNCHANGED <<http, cli, reqs, batch>>

TripNext == Tick \/ TripSnapshot \/ TripUndo \/ TripRedo \/ TripEdit

SpecTrips == Init /\ [][TripNext]_vars

\* ------------------------------------------------------------------ registry calls
\* The methods of the registry that take a path that must exist, and the
\* parameter that names it.
PathMethods == InspectMethods \cup EditMethods
                 \cup {"image.save", "image.export", "image.clone", "image.snapshot", "image.undo",
                       "image.redo", "macro.run"}

PathKey(method) == IF method = "image.clone" THEN "source" ELSE "image"

\* A point given as [x, y].
Pair(x, y) == [list |-> <<[int |-> x], [int |-> y]>>]

\* A call of `method` on the path p, with what else the method needs to get
\* as far as the editor.
Needs(method) ==
  CASE method = "image.clone" -> [target |-> [str |-> OutP], overwrite |-> [int |-> 1]]
    [] method \in {"image.save", "image.export"} -> [output |-> [str |-> OutP]]
    [] method \in {"image.resize", "image.crop", "image.crop_center", "image.canvas_size"} ->
         [width |-> [int |-> 2], height |-> [int |-> 2], output |-> [str |-> OutP]]
    [] method = "image.rotate" -> [degrees |-> [int |-> 90], output |-> [str |-> OutP]]
    [] method = "adjust.curves" -> [points |-> [list |-> <<Pair(0, 0), Pair(255, 255)>>], output |-> [str |-> OutP]]
    [] method = "layer.rename" -> [name |-> [str |-> "n"], output |-> [str |-> OutP]]
    [] method = "layer.opacity" -> [opacity |-> [int |-> 50], output |-> [str |-> OutP]]
    [] method = "layer.blend_mode" -> [mode |-> [str |-> "NORMAL"], output |-> [str |-> OutP]]
    [] method = "macro.run" -> [macro |-> [list |-> MacroFileSteps]]
    [] method \in EditMethods \cup FurtherEditMethods -> [output |-> [str |-> OutP]]
    [] OTHER -> EmptyDict

On(method, p) == Put(Needs(method), PathKey(method), [str |-> p])

\* What macro.run is given as its macro: a list of steps, the path of a file
\* of steps, the path of no file, nothing, and a number.
Macros == {[list |-> MacroFileSteps], [str |-> MacroFile], [str |-> Missing], Null, [int |-> 7]}

\* The methods that take a layer reference.
LayerMethods ==
  {"layer.remove", "layer.rename", "layer.opacity", "layer.blend_mode", "layer.duplicate",
   "layer.merge_down", "layer.reorder", "mask.add", "mask.apply", "text.update",
   "adjust.levels", "adjust.curves", "adjust.invert", "filter.blur"}

LayerKeys == {"layerIndex", "layerId"}

\* Layer references: an integer, a string of digits, and a string that is no
\* number.
LayerValues == {[int |-> 3], [numstr |-> 3], [str |-> "abc"]}

\* The editor run of a call on a layer.
LayerOracles == {<<ProcOk(1)>>}

\* A call naming a path that does not exist.
MissingPath ==
  \E method \in PathMethods :
    /\ Call(method, On(method, Missing), <<ProcOk(1)>>)
    /\ UNCHANGED <<rt, http, cli, reqs, batch>>

\* macro.run on an image that exists.
Macro ==
  \E macro \in Macros :
    /\ Call("macro.run", Put(Img(ImgA), "macro", macro), <<ProcOk(1)>>)
    /\ UNCHANGED <<rt, http, cli, reqs, batch>>

\* A call on a layer of an image that exists, writing to another file.
LayerCall ==
  \E method \in LayerMethods, key \in LayerKeys, v \in LayerValues, orc \in LayerOracles :
    /\ Call(method, Put(On(method, ImgA), key, v), orc)
    /\ UNCHANGED <<rt, http, cli, reqs, batch>>

CallsNext == Snapshot \/ MissingPath \/ Macro \/ LayerCall

SpecCalls == Init /\ [][CallsNext]_vars

\* ------------------------------------------------------------------ macros
\* Steps of a macro: an in-place rotation, an in-place resize to a width the
\* registry refuses, a snapshot and a step without a method.
StepRotate ==
  [dict |-> [method |-> [str |-> "image.rotate"], params |-> [dict |-> [degrees |-> [int |-> 90]]]]]

StepResizeZero ==
  [dict |-> [method |-> [str |-> "image.resize"],
             params |-> [dict |-> [width |-> [int |-> 0], height |-> [int |-> 2]]]]]

StepSnapshot == [dict |-> [method |-> [str |-> "image.snapshot"]]]

StepNoMethod == [dict |-> [params |-> [dict |-> EmptyDict]]]

StepChoices == {StepRotate, StepResizeZero, StepSnapshot, StepNoMethod}

\* The longest macro of the model.
MaxSteps == 3

\* The macros: every list of one to MaxSteps of these steps.
RECURSIVE ListsOf(_, _)
ListsOf(choices, n) ==
  IF n = 0 THEN {<<>>}
  ELSE {<<>>} \cup {<<c>> \o rest : c \in choices, rest \in ListsOf(choices, n - 1)}

MacroLists == ListsOf(StepChoices, MaxSteps) \ {<<>>}

\* The editor runs of a macro: every run succeeds, or the first succeeds and
\* the later ones exit non-zero.
MacroOracles == {<<ProcOk(1)>>, <<ProcOk(1), ProcExit>>}

\* macro.run with a list of steps, on an image that exists.
RunMacros ==
  \E macro \in MacroLists, orc \in MacroOracles :
    /\ Call("macro.run", Put(Img(ImgA), "macro", [list |-> macro]), orc)
    /\ UNCHANGED <<rt, http, cli, reqs, batch>>

MacrosNext == RunMacros

SpecMacros == Init /\ [][MacrosNext]_vars

\* ------------------------------------------------------------------ centred crops
\* The longest side of an image the editor inspects.
MaxSide == 3

Sides == 1 .. MaxSide

\* The sizes asked for: none, every side of an image, and one more.
Requested == 0 .. MaxSide + 1

\* The editor runs of image.crop_center: the image has some size and every
\* run succeeds, or the inspection exits non-zero.
CropOracles == {<<ProcSized(sw, sh, 1)>> : sw \in Sides, sh \in Sides} \cup {<<ProcExit>>}

\* image.crop_center into another file, and in place for one size.
CropParams ==
  {SetDefaults(Img(ImgA), [width |-> [int |-> cw], height |-> [int |-> ch], output |-> [str |-> OutP]]) :
     cw \in Requested, ch \in Requested}
    \cup {SetDefaults(Img(ImgA), [width |-> [int |-> 1], height |-> [int |-> 1]])}

CropCentre ==
  \E params \in CropParams, orc \in CropOracles :
    /\ Call("image.crop_center", params, orc)
    /\ UNCHANGED <<rt, http, cli, reqs, batch>>

CropsNext == CropCentre

SpecCrops == Init /\ [][CropsNext]_vars

\* ------------------------------------------------------------------ montages
\* The most rows and the most columns of a grid.
MaxGrid == 2

GridSides == 0 .. MaxGrid

TileWidths == {0, 2}

TileHeights == {0, 3}

Gutters == {-1, 0, 1}

\* A list of n source images, every one a file that exists.
Sources(n) == [list |-> [i \in 1 .. n |-> [str |-> IF i % 2 = 1 THEN ImgA ELSE ImgB]]]

\* The calls of image.montage_grid: for every grid, no image, as many images
\* as it has cells, and one more.
MontageParams ==
  {[images |-> Sources(n), rows |-> [int |-> rows], cols |-> [int |-> cols], tileWidth |-> [int |-> tw],
    tileHeight |-> [int |-> th], gutter |-> [int |-> g], output |-> [str |-> OutP]] :
     rows \in GridSides, cols \in GridSides, tw \in TileWidths, th \in TileHeights, g \in Gutters,
     n \in {0, 1, MaxGrid, MaxGrid * MaxGrid, MaxGrid * MaxGrid + 1}}

Montage ==
  \E params \in MontageParams :
    /\ Call("image.montage_grid", params, NoRun)
    /\ UNCHANGED <<rt, http, cli, reqs, batch>>

MontageNext == Montage

SpecMontage == Init /\ [][MontageNext]_vars

\* ------------------------------------------------------------------ command line
\* The port of the default URL http://127.0.0.1:41749.
DefaultPort == 41749

\* The ports of --port and of HARNESS_GIMP_BRIDGE_URL; an environment without
\* the variable is 0.
Ports == {DefaultPort, 47777, 49999}

Environments == {0} \cup Ports

\* BridgeClient.__init__: the URL given, else the environment variable, else
\* the default.
ClientUrl(url, env) == IF url # 0 THEN url ELSE IF env # 0 THEN env ELSE DefaultPort

\* _bridge_client
BridgeClientOf(env) == ClientUrl(0, env)

\* BridgeClient.health against the bridge of this model.
Health(c, port) == c.child.alive /\ c.child.port = port

\* bridge start --port P, in a process of its own.
BridgeStart ==
  \E port \in Ports, env \in Environments :
    /\ cli' = IF cli.pidFile /\ cli.child.alive
              THEN [cli EXCEPT !.out = [command |-> "bridge.start", port |-> port, env |-> env,
                                        target |-> 0, status |-> "already-running"]]
              ELSE [child |-> [port |-> port, alive |-> TRUE], pidFile |-> TRUE, started |-> port,
                    out |-> [command |-> "bridge.start", port |-> port, env |-> env,
                             target |-> ClientUrl(port, env), status |-> "started"]]
    /\ last' = NoCall
    /\ UNCHANGED <<files, snaps, hist, now, rt, http, reqs, batch>>

\* bridge stop
BridgeStop ==
  \E env \in Environments :
    /\ cli' = IF ~cli.pidFile
              THEN [cli EXCEPT !.out = [command |-> "bridge.stop", port |-> 0, env |-> env,
                                        target |-> 0, status |-> "not-running"]]
              ELSE IF cli.child.alive
              THEN [child |-> [port |-> 0, alive |-> FALSE], pidFile |-> FALSE, started |-> 0,
                    out |-> [command |-> "bridge.stop", port |-> 0, env |-> env,
                             target |-> 0, status |-> "stopped"]]
              ELSE [cli EXCEPT !.out = [command |-> "bridge.stop", port |-> 0, env |-> env,
                                        target |-> 0, status |-> "ERROR"]]
    /\ last' = NoCall
    /\ UNCHANGED <<files, snaps, hist, now, rt, http, reqs, batch>>

\* The bridge process dies; its pid file stays.
BridgeDies ==
  /\ cli.child.alive
  /\ cli' = [cli EXCEPT !.child.alive = FALSE, !.started = 0]
  /\ last' = NoCall
  /\ UNCHANGED <<files, snaps, hist, now, rt, http, reqs, batch>>

\* bridge status, in a fresh process.
BridgeStatus ==
  \E env \in Environments :
    /\ cli' = [cli EXCEPT !.out = [command |-> "bridge.status", port |-> 0, env |-> env,
                                   target |-> BridgeClientOf(env),
                                   status |-> IF Health(cli, BridgeClientOf(env))
                                              THEN "running" ELSE "BRIDGE_UNAVAILABLE"]]
    /\ last' = NoCall
    /\ UNCHANGED <<files, snaps, hist, now, rt, http, reqs, batch>>

CliNext == BridgeStart \/ BridgeStop \/ BridgeDies \/ BridgeStatus

SpecCli == Init /\ [][CliNext]_vars

\* ------------------------------------------------------------------ soaks
\* The most iterations a soak is asked for.
MaxIterations == 3

\* The actions soaked: one that never fails, a snapshot, an undo, a method the
\* registry does not know, and an in-place resize whose width is no number.
SoakActions ==
  {[action |-> [str |-> "system.health"]],
   [action |-> [str |-> "image.snapshot"], action_params |-> [dict |-> Img(ImgA)]],
   [action |-> [str |-> "image.undo"], action_params |-> [dict |-> Img(ImgA)]],
   [action |-> [str |-> "image.nothing"]],
   [action |-> [str |-> "image.resize"],
    action_params |-> [dict |-> [image |-> [str |-> ImgA], width |-> [str |-> "abc"], height |-> [int |-> 2]]]]}

SoakCall ==
  \E a \in SoakActions, iterations \in -1 .. MaxIterations :
    /\ Call("system.soak", Put(a, "iterations", [int |-> iterations]), NoRun)
    /\ UNCHANGED <<rt, http, cli, reqs, batch>>

SoakNext == Snapshot \/ SoakCall

SpecSoak == Init /\ [][SoakNext]_vars

\* ------------------------------------------------------------------ edits
\* The methods edited in place in this specification; every editing method is
\* called with another output.
InPlaceMethods == {"image.crop_center", "mask.apply"}

\* The output of an edit of ImgA: none given, ImgA under its other spelling,
\* and another file.
WithOutput(params, output) ==
  IF output = "" THEN [k \in DOMAIN params \ {"output"} |-> params[k]]
  ELSE Put(params, "output", [str |-> output])

EditCalls ==
  {[method |-> method, params |-> On(method, ImgA)] : method \in EditMethods}
    \cup {[method |-> method, params |-> WithOutput(On(method, ImgA), output)] :
            method \in InPlaceMethods, output \in {"", ImgAlt}}

\* The editor runs of an edit: every run succeeds, or every run exits
\* non-zero.
EditOracles == {<<ProcOk(1)>>, <<ProcExit>>}

EditCall ==
  \E c \in EditCalls, orc \in EditOracles :
    /\ Call(c.method, c.params, orc)
    /\ UNCHANGED <<rt, http, cli, reqs, batch>>

EditsNext == Undo \/ EditCall

SpecEdits == Init /\ [][EditsNext]_vars

\* ------------------------------------------------------------------ concurrent requests
\* ThreadingHTTPServer runs every request on a thread of its own, and nothing
\* in _snapshot_image or _undo_redo locks the history document.  The steps of
\* a request that other threads can see: it loads the document, it copies a
\* file, it saves the document.  What it computes in between is local.
RaceImage == ImgA

RaceMethods == {"image.snapshot", "image.undo", "image.redo"}

\* The descriptions of the concurrent snapshots: the default and a given one.
RaceDescriptions == {SnapshotWord} \cup Descriptions

Direction(method) == IF method = "image.undo" THEN -1 ELSE 1

\* How many of the methods take a snapshot.
SnapshotsAmong(methods) == Cardinality({t \in Threads : methods[t] = "image.snapshot"})

\* The length of the snapshot list of RaceImage.
ListLength(state) ==
  IF Resolve(RaceImage) \in DOMAIN state THEN Len(state[Resolve(RaceImage)].snapshots) ELSE 0

\* A plausible repair: the document read again when it is saved.
DocumentReloaded(loaded, onDisk) == onDisk

\* The document a request modifies and saves: its local `state`, loaded when
\* the request began, whatever the file holds by now.
Document(loaded, onDisk) == loaded

Returned(t, res) == [reqs EXCEPT !.th[t].pc = "done", !.th[t].res = res]

\* Two requests on the same image arrive while no other is being served.
Arrive ==
  \E methods \in [Threads -> RaceMethods], descriptions \in [Threads -> RaceDescriptions] :
    /\ \A t \in Threads : reqs.th[t].pc \in {"idle", "done"}
    /\ \A t \in Threads : methods[t] # "image.snapshot" => descriptions[t] = SnapshotWord
    /\ ListLength(hist) + SnapshotsAmong(methods) <= MaxSnaps
    /\ reqs' = [start |-> hist, clock |-> 0,
                th |-> [t \in Threads |->
                          [Idle EXCEPT !.pc = "arrived", !.method = methods[t], !.image = RaceImage,
                                       !.description = descriptions[t]]]]
    /\ last' = NoCall
    /\ UNCHANGED <<files, snaps, hist, now, rt, http, cli, batch>>

\* state = _history_load(), and for an undo or a redo the checks on what it
\* loaded.
Load(t) ==
  /\ reqs.th[t].pc = "arrived"
  /\ \E state \in {HistoryLoad(World(<<>>))}, image_key \in {Resolve(reqs.th[t].image)} :
       reqs' =
         [IF ~RequirePath(World(<<>>), reqs.th[t].image).res.ok
            THEN Returned(t, BridgeError(World(<<>>), "NOT_FOUND").res)
          ELSE IF reqs.th[t].method = "image.snapshot"
            THEN [reqs EXCEPT !.th[t].pc = "loaded", !.th[t].state = state]
          ELSE IF image_key \notin DOMAIN state \/ state[image_key].snapshots = <<>>
            THEN Returned(t, BridgeError(World(<<>>), "INVALID_INPUT").res)
          ELSE IF OutOfRange(state[image_key].index + Direction(reqs.th[t].method),
                             Len(state[image_key].snapshots))
            THEN Returned(t, BridgeError(World(<<>>), "INVALID_INPUT").res)
          ELSE [reqs EXCEPT !.th[t].pc = "loaded", !.th[t].state = state,
                            !.th[t].next_idx = state[image_key].index + Direction(reqs.th[t].method),
                            !.th[t].path = At(state[image_key].snapshots,
                                              state[image_key].index + Direction(reqs.th[t].method))]
         EXCEPT !.clock = reqs.clock + 1, !.th[t].loaded = reqs.clock + 1]
  /\ last' = NoCall
  /\ UNCHANGED <<files, snaps, hist, now, rt, http, cli, batch>>

\* shutil.copyfile: the image into a new snapshot file, or the target
\* snapshot over the image.
Copy(t) ==
  /\ reqs.th[t].pc = "loaded"
  /\ \E image_key \in {Resolve(reqs.th[t].image)} :
       IF reqs.th[t].method = "image.snapshot"
       THEN \E snapshot \in {SnapshotPath(reqs.th[t].image, reqs.th[t].description, now)} :
              /\ snaps' = CopyInto(snaps, snapshot, files[image_key])
              /\ reqs' = [reqs EXCEPT !.th[t].pc = "copied", !.th[t].path = snapshot]
              /\ files' = files
       ELSE IF reqs.th[t].path \notin DOMAIN snaps
       THEN /\ reqs' = Returned(t, BridgeError(World(<<>>), "NOT_FOUND").res)
            /\ UNCHANGED <<files, snaps, batch>>
       ELSE /\ files' = CopyInto(files, image_key, snaps[reqs.th[t].path])
            /\ reqs' = [reqs EXCEPT !.th[t].pc = "copied"]
            /\ snaps' = snaps
  /\ last' = NoCall
  /\ UNCHANGED <<hist, now, rt, http, cli, batch>>

\* The entry changed in the local document, _history_save(state), and the
\* result returned.
Save(t) ==
  /\ reqs.th[t].pc = "copied"
  /\ \E image_key \in {Resolve(reqs.th[t].image)} :
       IF reqs.th[t].method = "image.snapshot"
       THEN \E state \in {SetDefault(Document(reqs.th[t].state, hist), image_key)} :
            \E image_state \in {Push(state[image_key], reqs.th[t].path)} :
              /\ hist' = HistorySave(World(<<>>), [state EXCEPT ![image_key] = image_state]).hist
              /\ reqs' = [Returned(t, [ok |-> TRUE,
                                       value |-> [snapshot |-> reqs.th[t].path, index |-> image_state.index,
                                                  count |-> Len(image_state.snapshots)]])
                            EXCEPT !.clock = reqs.clock + 1, !.th[t].saved = reqs.clock + 1]
       ELSE \E state \in {Document(reqs.th[t].state, hist)} :
              /\ hist' = HistorySave(World(<<>>), [state EXCEPT ![image_key].index = reqs.th[t].next_idx]).hist
              /\ reqs' = [Returned(t, [ok |-> TRUE,
                                       value |-> [image |-> reqs.th[t].image, snapshot |-> reqs.th[t].path,
                                                  index |-> reqs.th[t].next_idx,
                                                  count |-> Len(state[image_key].snapshots)]])
                            EXCEPT !.clock = reqs.clock + 1, !.th[t].saved = reqs.clock + 1]
  /\ last' = NoCall
  /\ UNCHANGED <<files, snaps, now, rt, http, cli, batch>>

Loads == \E t \in Threads : Load(t)

Copies == \E t \in Threads : Copy(t)

Saves == \E t \in Threads : Save(t)

RaceNext == Tick \/ Arrive \/ Loads \/ Copies \/ Saves

SpecRace == Init /\ [][RaceNext]_vars

\* ------------------------------------------------------------------ requests on two images
\* The image of each of two requests that arrive together: two images whose
\* entries the one history document holds.
ApartImages == [t \in Threads |-> IF t = 1 THEN ImgA ELSE ImgB]

\* Two requests, one on each image, arrive together, once.
ArriveApart ==
  \E methods \in [Threads -> RaceMethods] :
    /\ \A t \in Threads : reqs.th[t].pc = "idle"
    /\ \A t \in Threads :
         methods[t] = "image.snapshot" /\ Resolve(ApartImages[t]) \in DOMAIN hist
           => Len(hist[Resolve(ApartImages[t])].snapshots) < MaxSnaps
    /\ reqs' = [start |-> hist, clock |-> 0,
                th |-> [t \in Threads |->
                          [Idle EXCEPT !.pc = "arrived", !.method = methods[t], !.image = ApartImages[t],
                                       !.description = SnapshotWord]]]
    /\ last' = NoCall
    /\ UNCHANGED <<files, snaps, hist, now, rt, http, cli, batch>>

\* An edit of one of the images in place, while no request is being served.
EditApart ==
  \E t \in Threads :
    /\ \A u \in Threads : reqs.th[u].pc \in {"idle", "done"}
    /\ Call("image.rotate", WithOutput(On("image.rotate", ApartImages[t]), ""), <<ProcOk(2)>>)
    /\ UNCHANGED <<rt, http, cli, reqs, batch>>

ApartNext == ArriveApart \/ Loads \/ Copies \/ Saves \/ EditApart

SpecApart == Init /\ [][ApartNext]_vars

\* ------------------------------------------------------------------ editor failures
\* Edits whose one editor run fails in each of the ways subprocess.run and
\* run_python_batch know, or succeeds: in place and with another output.
FailingRuns == {<<ProcExit>>, <<ProcNoLine>>, <<ProcBadJson>>, <<ProcTimeout>>}

FailureMethods == {"image.rotate", "mask.apply"}

FailureCalls ==
  {[method |-> method, params |-> WithOutput(On(method, ImgA), output)] :
     method \in FailureMethods, output \in {"", OutP}}

FailureCall ==
  \E c \in FailureCalls, orc \in FailingRuns \cup {<<ProcOk(1)>>} :
    /\ Call(c.method, c.params, orc)
    /\ UNCHANGED <<rt, http, cli, reqs, batch>>

FailuresNext == Undo \/ FailureCall

SpecFailures == Init /\ [][FailuresNext]_vars

\* ------------------------------------------------------------------ editor output
\* Editor processes that ended, by what they printed: up to MaxLines lines on
\* stdout and as many on stderr, each a line without the marker or a marker
\* line with a JSON object, with text that is no JSON, or with nothing.
MaxLines == 2

Answers == {Inspected, [width |-> 1, height |-> 1]}

OutputLines ==
  {Noise, [marker |-> TRUE, body |-> EmptyBody], [marker |-> TRUE, body |-> BadBody]}
    \cup {[marker |-> TRUE, body |-> JsonBody(obj)] : obj \in Answers}

Outputs == UNION {[1 .. n -> OutputLines] : n \in 0 .. MaxLines}

\* (proc.stdout or "") + "\n" + (proc.stderr or ""), split into lines.
Merged(stdout, stderr) == stdout \o stderr

\* run_python_batch on a process that printed stdout and stderr and exited
\* with returncode.
Invoke ==
  \E stdout \in Outputs, stderr \in Outputs, returncode \in {0, 1} :
    /\ batch' = [ran |-> TRUE, stdout |-> stdout, stderr |-> stderr, returncode |-> returncode,
                 result |-> RunPythonBatch([timedOut |-> FALSE, returncode |-> returncode,
                                            lines |-> Merged(stdout, stderr), write |-> {}, secs |-> 0])]
    /\ UNCHANGED <<files, snaps, hist, now, last, rt, http, cli, reqs>>

BatchNext == Invoke

SpecBatch == Init /\ [][BatchNext]_vars

\* ------------------------------------------------------------------ enum words
\* The parameter of each method that takes one of a fixed set of words.
EnumKey(method) ==
  CASE method = "image.flip" -> "axis"
    [] method = "adjust.color_balance" -> "transferMode"
    [] method \in {"adjust.desaturate", "mask.add"} -> "mode"
    [] method = "image.montage_grid" -> "fitMode"

\* The words the calls give: one as the code spells it, one in another case,
\* and one that is none of the set.
EnumWords(method) ==
  CASE method = "image.flip" -> {"horizontal", "Vertical", "diagonal"}
    [] method = "adjust.color_balance" -> {"MIDTONES", "shadows", "bogus"}
    [] method = "adjust.desaturate" -> {"luma", "Average", "bogus"}
    [] method = "mask.add" -> {"WHITE", "black", "bogus"}
    [] method = "image.montage_grid" -> {"cover", "CONTAIN", "stretch"}

EnumMethods == {"image.flip", "adjust.color_balance", "adjust.desaturate", "mask.add", "image.montage_grid"}

\* A montage of one tile.
OneTile ==
  [images |-> [list |-> <<[str |-> ImgA]>>], rows |-> [int |-> 1], cols |-> [int |-> 1],
   tileWidth |-> [int |-> 2], tileHeight |-> [int |-> 3], output |-> [str |-> OutP]]

\* Calls that give the word, in place and into another file.
EnumParams(method, word, output) ==
  Put(IF method = "image.montage_grid" THEN OneTile ELSE WithOutput(On(method, ImgA), output),
      EnumKey(method), [str |-> word])

EnumCall ==
  \E method \in EnumMethods, output \in {"", OutP} :
    \E word \in EnumWords(method) :
      /\ Call(method, EnumParams(method, word, output), <<ProcOk(1)>>)
      /\ UNCHANGED <<rt, http, cli, reqs, batch>>

EnumsNext == EnumCall

SpecEnums == Init /\ [][EnumsNext]_vars

\* ------------------------------------------------------------------ numeric ranges
\* The numeric parameter of each method that has a range, and the values the
\* calls give for it: in range, at and beyond its ends, NaN and a string that
\* is no number.
RangeMethods ==
  {"image.resize", "image.crop", "image.crop_center", "image.canvas_size", "layer.opacity", "image.rotate"}

RangeKeys(method) ==
  CASE method = "layer.opacity" -> {"opacity"}
    [] method = "image.rotate" -> {"degrees"}
    [] OTHER -> {"width", "height"}

RangeValues(method) ==
  CASE method = "layer.opacity" -> {[int |-> -1], [int |-> 0], [int |-> 100], [int |-> 101], NaN}
    [] method = "image.rotate" -> {[int |-> 0], [int |-> 90], [int |-> 91], [int |-> 270], [str |-> "abc"]}
    [] OTHER -> {[int |-> -1], [int |-> 0], [int |-> 2], [str |-> "abc"]}

\* The call with every ranged parameter in range.
InRangeParams(method) ==
  CASE method = "layer.opacity" -> Put(On(method, ImgA), "opacity", [int |-> 50])
    [] method = "image.rotate" -> Put(On(method, ImgA), "degrees", [int |-> 90])
    [] OTHER -> Put(Put(On(method, ImgA), "width", [int |-> 2]), "height", [int |-> 2])

\* Into another file, and layer.opacity in place too.
RangeCall ==
  \E method \in RangeMethods :
    \E key \in RangeKeys(method), output \in IF method = "layer.opacity" THEN {"", OutP} ELSE {OutP} :
      \E value \in RangeValues(method) :
        /\ Call(method, WithOutput(Put(InRangeParams(method), key, value), output), <<ProcOk(1)>>)
        /\ UNCHANGED <<rt, http, cli, reqs, batch>>

RangesNext == RangeCall

SpecRanges == Init /\ [][RangesNext]_vars

\* ------------------------------------------------------------------ macro defaults
\* Rotations as macro steps: without params, with its own degrees, with its
\* own image, and with its own degrees, image and output.
Rotation(own) == [dict |-> [method |-> [str |-> "image.rotate"], params |-> [dict |-> own]]]

OwnParams ==
  {EmptyDict, [degrees |-> [int |-> 90]], [image |-> [str |-> ImgB]],
   [degrees |-> [int |-> 90], image |-> [str |-> ImgB], output |-> [str |-> OutP]]}

DefaultSteps ==
  {<<Rotation(a)>> : a \in OwnParams} \cup {<<Rotation(a), Rotation(EmptyDict)>> : a \in OwnParams}
    \cup {<<[dict |-> [method |-> [str |-> "image.rotate"]]]>>}

\* The params of the macro: none, degrees, and degrees with an image and an
\* output.
GivenMacroParams ==
  {EmptyDict, [params |-> [dict |-> [degrees |-> [int |-> 180]]]],
   [params |-> [dict |-> [degrees |-> [int |-> 180], image |-> [str |-> ImgAlt], output |-> [str |-> OutP]]]]}

MacroWithParams ==
  \E steps \in DefaultSteps, given \in GivenMacroParams :
    /\ Call("macro.run", SetDefaults(Put(Img(ImgA), "macro", [list |-> steps]), given), <<ProcOk(1)>>)
    /\ UNCHANGED <<rt, http, cli, reqs, batch>>

DefaultsNext == MacroWithParams

SpecDefaults == Init /\ [][DefaultsNext]_vars

\* ------------------------------------------------------------------ planned edits
\* Action names of the table, padded names, and names the table does not hold.
PlanActions ==
  {"resize", "rotate", " rotate ", "curves", "layer-opacity", "montage-grid",
   "image.rotate", "Rotate", "crop_center", ""}

\* What a planned edit may carry as its params: nothing, the parameters the
\* method asks for, and those together with an image of their own.  With
\* nothing, a rotation is one of no degrees, in place.
PlanParams(action) ==
  IF Strip(action) \notin DOMAIN method_map THEN {Null, [dict |-> EmptyDict]}
  ELSE IF method_map[Strip(action)] = "image.montage_grid" THEN {Null, [dict |-> OneTile]}
  ELSE {Null,
        [dict |-> Needs(method_map[Strip(action)])],
        [dict |-> Put(Needs(method_map[Strip(action)]), "image", [str |-> ImgB])]}

PlanCall ==
  \E image \in {ImgA, Missing}, action \in PlanActions :
    \E given \in PlanParams(action) :
      /\ Call("project.plan_edit", [image |-> [str |-> image], action |-> [str |-> action], params |-> given],
              <<ProcOk(1)>>)
      /\ UNCHANGED <<rt, http, cli, reqs, batch>>

PlansNext == PlanCall

SpecPlans == Init /\ [][PlansNext]_vars

\* ------------------------------------------------------------------ omitted outputs
\* The methods that write an image: the edits, and image.save, image.export
\* and image.montage_grid.
WritingMethods == EditMethods \cup FurtherEditMethods \cup {"image.save", "image.export", "image.montage_grid"}

\* A call of the method on ImgA that is complete but for its output, which is
\* absent or empty.
Omitting(method, empty) ==
  With(IF method = "image.montage_grid" THEN OneTile ELSE On(method, ImgA), LAMBDA params :
    IF empty THEN Put(params, "output", [str |-> ""]) ELSE WithOutput(params, ""))

OmittedCall ==
  \E method \in WritingMethods, empty \in BOOLEAN :
    /\ Call(method, Omitting(method, empty), <<ProcOk(1)>>)
    /\ UNCHANGED <<rt, http, cli, reqs, batch>>

OmittedNext == OmittedCall

SpecOmitted == Init /\ [][OmittedNext]_vars

\* ------------------------------------------------------------------ curves
\* The points of the curves: pairs on the 0..255 scale and on the 0..1 scale,
\* and a point given as {x, y}.
CurveXs == {0, 1, 128, 255, 300}

CurveYs == {0, 1, 255}

CurvePoints == {Pair(x, y) : x \in CurveXs, y \in CurveYs} \cup {[dict |-> [x |-> [int |-> 64], y |-> [int |-> 64]]]}

\* What the calls give as points: lists of up to two points, a list of three,
\* a list with something that is no point, and values that are no lists.
PointsGiven ==
  {[list |-> <<>>], [list |-> <<Pair(255, 255), Pair(128, 0), Pair(0, 0)>>],
   [list |-> <<Pair(0, 0), [int |-> 255]>>], [str |-> "abc"], [int |-> 3],
   [dict |-> [x |-> [int |-> 0], y |-> [int |-> 0]]]}
    \cup {[list |-> <<p>>] : p \in CurvePoints}
    \cup {[list |-> <<p, q>>] : p, q \in CurvePoints}

CurvesCall ==
  \/ \E points \in PointsGiven :
       /\ Call("adjust.curves", Put(On("adjust.curves", ImgA), "points", points), <<ProcOk(1)>>)
       /\ UNCHANGED <<rt, http, cli, reqs, batch>>
  \/ /\ Call("adjust.curves", [image |-> [str |-> ImgA], output |-> [str |-> OutP]], <<ProcOk(1)>>)
     /\ UNCHANGED <<rt, http, cli, reqs, batch>>

CurvesNext == CurvesCall

SpecCurves == Init /\ [][CurvesNext]_vars

\* ------------------------------------------------------------------ undone edits
\* Here rt follows in-place edits of ImgA that start from no history, and the
\* undos that come after them: n counts the edits, list holds the bytes the
\* image had before each of them, undos counts the undos, and ok says that
\* every undo so far succeeded and left the image with the bytes it had before
\* the edit it answers to.
UndoneMethods == {"image.rotate", "image.flip", "adjust.invert"}

\* handle_method(method, params) on ImgA, the editor writing `bytes`, with
\* room for the snapshots of MaxEdits edits.
Through(method, params, bytes) ==
  \E out \in {HandleMethod(World(<<ProcOk(bytes)>>), method, params)} :
     /\ out.w.now <= MaxClock
     /\ \A k \in DOMAIN out.w.hist : Len(out.w.hist[k].snapshots) <= 2 * MaxEdits
     /\ files' = out.w.files
     /\ snaps' = [q \in Referenced(out.w) |-> out.w.snaps[q]]
     /\ hist' = out.w.hist
     /\ now' = out.w.now
     /\ last' = [method |-> method, params |-> params, runs |-> out.w.runs, res |-> out.res,
                 sent |-> out.w.sent, saved |-> out.w.saved, took |-> out.w.took, steps |-> out.w.steps,
                 prior |-> Prior(params)]

\* One more edit in place, which writes bytes the image never had.
EditInPlace ==
  \E method \in UndoneMethods :
    /\ rt.undos = 0
    /\ rt.n < MaxEdits
    /\ Through(method, WithOutput(On(method, ImgA), ""), files[ImgA] + 2)
    /\ rt' = IF last'.res.ok
             THEN [image |-> ImgA, n |-> rt.n + 1, list |-> Append(rt.list, files[ImgA]), undos |-> 0,
                   redos |-> 0, ok |-> TRUE]
             ELSE rt
    /\ UNCHANGED <<http, cli, reqs, batch>>

\* One more undo, as long as there is an edit left to answer to.
UndoEdit ==
  /\ rt.n >= 1
  /\ rt.undos < rt.n
  /\ Through("image.undo", Img(ImgA), 0)
  /\ rt' = [rt EXCEPT !.undos = @ + 1,
                      !.ok = @ /\ last'.res.ok /\ files'[ImgA] = rt.list[rt.n - rt.undos]]
  /\ UNCHANGED <<http, cli, reqs, batch>>

UndoneNext == Tick \/ EditInPlace \/ UndoEdit

SpecUndone == Init /\ [][UndoneNext]_vars

\* ------------------------------------------------------------------ server
\* A JSON text is EmptyBody (no content), BadBody (no JSON) or JsonBody(v);
\* json.loads of it.
JsonLoads(raw) ==
  IF raw = BadBody THEN [ok |-> FALSE, exc |-> "JSONDecodeError"] ELSE [ok |-> TRUE, val |-> raw.json]

\* str(exc) and exc.message, by the exception they come from.
Message(res) ==
  IF res.exc = "BridgeOperationError" THEN "message of " \o res.code ELSE "str of " \o res.exc

Envelope(code, message) ==
  [ok |-> FALSE, error |-> [dict |-> [code |-> [str |-> code], message |-> [str |-> message]]]]

\* _send_json
SendJson(status, payload) == [status |-> status, body |-> payload]

NotFound == SendJson(404, [ok |-> FALSE, error |-> [str |-> "not found"]])

\* do_GET
DoGet(path) == IF path = "/health" THEN SendJson(200, [ok |-> TRUE]) ELSE NotFound

\* A method that is no string equals no name of the registry.
MethodName(v) == IF IsStr(v) THEN v.str ELSE ""

\* The methods of the registry that read no parameter.
Parameterless == {"system.health", "system.version", "system.actions"}

\* The try block of do_POST on the parsed payload: [w, res, called], where
\* called says whether handle_method was reached.
Dispatch(w, payload) ==
  IF ~IsDict(payload) THEN Raise(w, "AttributeError", "") @@ [called |-> FALSE]
  ELSE With(Get(payload.dict, "params", Null), LAMBDA given :
         IF /\ Truthy(given) /\ ~IsDict(given)
            /\ MethodName(Get(payload.dict, "method", Null)) \in KnownMethods \ Parameterless
         THEN Raise(w, "AttributeError", "") @@ [called |-> TRUE]
         ELSE HandleMethod(w, MethodName(Get(payload.dict, "method", Null)),
                           IF IsDict(given) THEN given.dict ELSE EmptyDict) @@ [called |-> TRUE])

\* The response of do_POST to what the try block did.
Respond(res) ==
  IF res.ok THEN SendJson(200, [ok |-> TRUE, result |-> res.value])
  ELSE IF res.exc = "BridgeOperationError" THEN SendJson(400, Envelope(res.code, Message(res)))
  ELSE SendJson(500, Envelope("ERROR", Message(res)))

\* raw of do_POST: "{}" when the request has no content.
RawOf(body) == IF body = EmptyBody THEN JsonBody([dict |-> EmptyDict]) ELSE body

\* do_POST: [w, res, called, response].
DoPost(w, path, body) ==
  IF path # "/rpc" THEN Ok(w, Null) @@ [called |-> FALSE, response |-> NotFound]
  ELSE With(JsonLoads(RawOf(body)), LAMBDA loaded :
       With(IF loaded.ok THEN Dispatch(w, loaded.val) ELSE Raise(w, loaded.exc, "") @@ [called |-> FALSE],
            LAMBDA done : done @@ [response |-> Respond(done.res)]))

\* ------------------------------------------------------------------ client
\* The reason phrase of a status, as send_response gives it.
Reason(status) ==
  CASE status = 200 -> "OK"
    [] status = 400 -> "Bad Request"
    [] status = 404 -> "Not Found"
    [] status = 500 -> "Internal Server Error"

\* BridgeClient.call: what it returns or the BridgeClientError it raises, from
\* the outcome of urlopen.  urlopen raises URLError when the server cannot be
\* reached, and HTTPError, a subclass of URLError, for a response whose status
\* is no 2xx; response is Null when none came.
ClientCall(response) ==
  IF response = Null THEN [ok |-> FALSE, code |-> "BRIDGE_UNAVAILABLE", message |-> "urlopen error"]
  ELSE IF response.status < 200 \/ response.status >= 300
  THEN [ok |-> FALSE, code |-> "BRIDGE_UNAVAILABLE",
        message |-> "HTTP Error " \o ToString(response.status) \o ": " \o Reason(response.status)]
  ELSE IF ~response.body.ok
  THEN With(IF IsDict(response.body.error) THEN response.body.error.dict ELSE EmptyDict, LAMBDA err :
         [ok |-> FALSE, code |-> StrOf(Get(err, "code", [str |-> "ERROR"])),
          message |-> StrOf(Get(err, "message", [str |-> "unknown bridge error"]))])
  ELSE [ok |-> TRUE, value |-> Get(response.body, "result", Null)]

\* _call_bridge: the data, or the failure _fail prints.
CallBridge(outcome) ==
  IF outcome.ok THEN outcome
  ELSE [ok |-> FALSE, code |-> outcome.code, message |-> outcome.message,
        retryable |-> outcome.code = "BRIDGE_UNAVAILABLE"]

\* The request of BridgeClient.call.
RpcRequest(method, params) ==
  [verb |-> "POST", path |-> "/rpc",
   body |-> JsonBody([dict |-> [method |-> [str |-> method], params |-> [dict |-> params]]])]

\* ------------------------------------------------------------------ exchanges
\* The world after a POST, and the call it made if it made one.
Served(request, out) ==
  /\ Bounded(out.w)
  /\ files' = out.w.files
  /\ snaps' = [q \in Referenced(out.w) |-> out.w.snaps[q]]
  /\ hist' = out.w.hist
  /\ now' = out.w.now
  /\ last' = IF out.called
             THEN With(RawOf(request.body).json.dict, LAMBDA payload :
                    With(IF IsDict(Get(payload, "params", Null)) THEN payload.params.dict ELSE EmptyDict,
                         LAMBDA params :
                           [method |-> MethodName(Get(payload, "method", Null)), params |-> params,
                            runs |-> out.w.runs, res |-> out.res, sent |-> out.w.sent,
                            saved |-> out.w.saved, took |-> out.w.took,
                            steps |-> out.w.steps, prior |-> Prior(params)]))
             ELSE NoCall

\* The calls the command line makes.
RpcCalls ==
  {[method |-> "image.snapshot", params |-> Img(ImgA)],
   [method |-> "image.undo", params |-> Img(ImgA)],
   [method |-> "image.inspect", params |-> Img(Missing)],
   [method |-> "image.nothing", params |-> EmptyDict]}
    \cup {[method |-> "image.resize", params |-> params] : params \in ResizeParams}

\* A command of the command line, with the bridge running.
Rpc ==
  \E c \in RpcCalls, orc \in Oracles :
    \E out \in {DoPost(World(orc), "/rpc", RpcRequest(c.method, c.params).body)} :
      /\ Served(RpcRequest(c.method, c.params), out)
      /\ http' = [request |-> RpcRequest(c.method, c.params), response |-> out.response,
                  client |-> CallBridge(ClientCall(out.response))]
      /\ UNCHANGED <<rt, cli, reqs, batch>>

\* A command of the command line, with no bridge to reach.
Unreachable ==
  \E c \in RpcCalls :
    /\ http' = [request |-> RpcRequest(c.method, c.params), response |-> Null,
                client |-> CallBridge(ClientCall(Null))]
    /\ last' = NoCall
    /\ UNCHANGED <<files, snaps, hist, now, rt, cli, reqs, batch>>

GetPaths == {"/health", "/rpc", "/"}

\* A GET request of any client.
HttpGet ==
  \E path \in GetPaths :
    /\ http' = [request |-> [verb |-> "GET", path |-> path, body |-> EmptyBody],
                response |-> DoGet(path), client |-> Null]
    /\ last' = NoCall
    /\ UNCHANGED <<files, snaps, hist, now, rt, cli, reqs, batch>>

PostPaths == {"/rpc", "/health"}

\* The bodies of POST requests: none, text that is no JSON, JSON that is no
\* object, an object without a method, and a call whose params are a list.
PostBodies ==
  {EmptyBody, BadBody, JsonBody([list |-> <<>>]), JsonBody(Null), JsonBody([dict |-> EmptyDict]),
   JsonBody([dict |-> [method |-> [str |-> "image.undo"], params |-> [list |-> <<[int |-> 1]>>]]])}

\* A POST request of any client.
HttpPost ==
  \E path \in PostPaths, raw \in PostBodies :
    \E out \in {DoPost(World(NoRun), path, raw)} :
      /\ Served([verb |-> "POST", path |-> path, body |-> raw], out)
      /\ http' = [request |-> [verb |-> "POST", path |-> path, body |-> raw],
                  response |-> out.response, client |-> Null]
      /\ UNCHANGED <<rt, cli, reqs, batch>>

RpcNext == Tick \/ Rpc \/ Unreachable \/ HttpGet \/ HttpPost

SpecRpc == Init /\ [][RpcNext]_vars

\* ------------------------------------------------------------------ history properties
\* The history entry of the image that the latest call named.
KeyOf(params) == Resolve(PathOf(StrOf(Get(params, "image", [str |-> ""]))))

Failed(res, code) == ~res.ok /\ res.exc = "BridgeOperationError" /\ res.code = code

\* C1: every history entry has index = -1 exactly when its list is empty, and
\* otherwise 0 <= index < len(snapshots), after any sequence of image.snapshot,
\* image.undo, image.redo and in-place image.resize calls, failed ones included.
HistoryEntryInRange ==
  \A k \in DOMAIN hist :
    /\ hist[k].index = -1 <=> hist[k].snapshots = <<>>
    /\ hist[k].snapshots # <<>> => hist[k].index >= 0 /\ hist[k].index < Len(hist[k].snapshots)

\* An undo has moved the cursor into the middle of a list of three.
HistoryEntryInRangeWitness ==
  /\ last.method = "image.undo" /\ last.res.ok
  /\ \E k \in DOMAIN hist : Len(hist[k].snapshots) >= 3 /\ hist[k].index = 1

\* C2: an image.snapshot call made with the cursor at i < n-1 of n snapshots
\* leaves snapshots[0..i] followed by the new snapshot, the cursor i+1 on it and
\* i+2 snapshots, and reports that index and count.
SnapshotDiscardsForward ==
  [][\A p \in Images :
       (/\ last'.method = "image.snapshot" /\ last'.params = Img(p) /\ last'.res.ok
        /\ KeyOf(Img(p)) \in DOMAIN hist
        /\ hist[KeyOf(Img(p))].index < Len(hist[KeyOf(Img(p))].snapshots) - 1)
       => /\ hist'[KeyOf(Img(p))].snapshots
               = SubSeq(hist[KeyOf(Img(p))].snapshots, 1, hist[KeyOf(Img(p))].index + 1)
                   \o <<last'.res.value.snapshot>>
          /\ hist'[KeyOf(Img(p))].index = hist[KeyOf(Img(p))].index + 1
          /\ Len(hist'[KeyOf(Img(p))].snapshots) = hist[KeyOf(Img(p))].index + 2
          /\ last'.res.value.index = hist[KeyOf(Img(p))].index + 1
          /\ last'.res.value.count = hist[KeyOf(Img(p))].index + 2]_vars

\* image.snapshot has succeeded from the cursor 1 of three snapshots: the
\* list is again three long and the cursor is on the last.
SnapshotDiscardsForwardWitness ==
  /\ last.method = "image.snapshot" /\ last.res.ok
  /\ last.prior = [index |-> 1, count |-> 3]
  /\ last.res.value.index = 2 /\ last.res.value.count = 3

\* C4: image.undo at cursor 0 or without history (no entry, or an empty
\* list) and image.redo at the last index fail with INVALID_INPUT, and the
\* failed call changes neither the history document nor the live file.
UndoRedoRefusedAtEnds ==
  [][\A p \in Images :
       (\/ /\ last'.method = "image.undo" /\ last'.params = Img(p)
            /\ \/ KeyOf(Img(p)) \notin DOMAIN hist
               \/ hist[KeyOf(Img(p))].snapshots = <<>>
               \/ hist[KeyOf(Img(p))].index = 0
        \/ /\ last'.method = "image.redo" /\ last'.params = Img(p)
            /\ KeyOf(Img(p)) \in DOMAIN hist
            /\ hist[KeyOf(Img(p))].index = Len(hist[KeyOf(Img(p))].snapshots) - 1)
       => Failed(last'.res, "INVALID_INPUT") /\ hist' = hist /\ files' = files /\ snaps' = snaps]_vars

\* image.undo has been refused at cursor 0 of a list of two or more.
UndoRedoRefusedAtEndsWitness ==
  /\ last.method = "image.undo" /\ Failed(last.res, "INVALID_INPUT")
  /\ last.prior.index = 0 /\ last.prior.count >= 2

\* C5: a call of a method other than macro.run that fails with INVALID_INPUT
\* has taken no snapshot, has run no editor, and leaves the history document
\* and the live files as they were.
ValidationBeforeSideEffects ==
  [][(last'.method \notin {"", "macro.run"} /\ Failed(last'.res, "INVALID_INPUT"))
       => last'.took = <<>> /\ last'.sent = <<>> /\ hist' = hist /\ files' = files]_vars

\* C8: handle_method returns a result or raises BridgeOperationError with
\* one of the codes INVALID_INPUT, NOT_FOUND, ERROR.
OnlyBridgeOperationErrors ==
  \/ last.res.ok
  \/ last.res.exc = "BridgeOperationError" /\ last.res.code \in {"INVALID_INPUT", "NOT_FOUND", "ERROR"}

\* C3: a run of N-1 consecutive image.undo calls from the cursor N-1 of
\* N >= 2 snapshots and the N-1 image.redo calls after it all succeed and
\* leave the list as it was; at the end of the run the cursor is N-1 again and
\* the live file holds the content of the last snapshot.
UndoRedoRoundTrip ==
  rt.n > 0 =>
    /\ rt.ok
    /\ hist[rt.image].snapshots = rt.list
    /\ (rt.undos = rt.n - 1 /\ rt.redos = rt.n - 1) =>
          /\ hist[rt.image].index = rt.n - 1
          /\ files[rt.image] = snaps[rt.list[rt.n]]

\* A round trip over three snapshots is complete, and it moved the live file.
UndoRedoRoundTripWitness ==
  /\ rt.n = 3 /\ rt.undos = 2 /\ rt.redos = 2
  /\ snaps[rt.list[1]] # snaps[rt.list[3]]

\* ------------------------------------------------------------------ registry properties
\* C9: a call that names a path that does not exist fails with NOT_FOUND,
\* having taken no snapshot and run no editor; so does a macro.run call whose
\* macro is neither a list nor the path of a file that exists, and it runs no
\* step.
MissingPathRefused ==
  [][/\ \A method \in PathMethods :
          (/\ last'.method = method /\ PathKey(method) \in DOMAIN last'.params
           /\ ~Exists(World(NoRun), PathOf(StrOf(last'.params[PathKey(method)]))))
          => /\ Failed(last'.res, "NOT_FOUND")
             /\ last'.took = <<>> /\ last'.sent = <<>>
             /\ hist' = hist /\ files' = files /\ snaps' = snaps
     /\ (/\ last'.method = "macro.run" /\ "macro" \in DOMAIN last'.params
         /\ Exists(World(NoRun), PathOf(StrOf(last'.params.image)))
         /\ ~IsList(last'.params.macro)
         /\ ~Exists(World(NoRun), PathOf(StrOf(last'.params.macro))))
        => /\ Failed(last'.res, "NOT_FOUND")
           /\ last'.took = <<>> /\ last'.sent = <<>>
           /\ hist' = hist /\ files' = files /\ snaps' = snaps]_vars

\* An in-place edit of a missing image has been refused while the history
\* holds snapshots.
MissingPathRefusedWitness ==
  /\ last.method = "image.resize" /\ last.params.image = [str |-> Missing]
  /\ Failed(last.res, "NOT_FOUND")
  /\ hist # <<>>

\* C10: a call of a method that takes a layer reference, given as layerId or
\* as layerIndex, sends the editor layerIndex = k when the value coerces to
\* the integer k, and fails with INVALID_INPUT when it does not coerce.
LayerAliasesEquivalent ==
  \A key \in LayerKeys :
    (/\ last.method \in LayerMethods
     /\ key \in DOMAIN last.params /\ (LayerKeys \ {key}) \cap DOMAIN last.params = {})
    => IF Coerce(last.params[key]).ok
       THEN /\ last.sent # <<>>
            /\ last.sent[Len(last.sent)].payload.layerIndex = [int |-> Coerce(last.params[key]).val]
       ELSE Failed(last.res, "INVALID_INPUT")

\* ------------------------------------------------------------------ macro properties
\* Whether a macro step is one the loop of macro.run calls.
WellFormedStep(step) ==
  /\ IsDict(step) /\ "method" \in DOMAIN step.dict
  /\ IsDict(Get(step.dict, "params", [dict |-> EmptyDict]))

\* C11: macro.run runs its steps in list order, each once; the first step
\* that fails ends the macro with that step's error and no later step runs;
\* what the steps already run did to the files and the history stays; and a
\* macro that succeeds returns one {method, result} per step, in step order.
MacroRunsStepsInOrder ==
  [][(last'.method = "macro.run" /\ IsList(last'.params.macro)
      /\ Exists(World(NoRun), PathOf(StrOf(last'.params.image))))
     => LET macro == last'.params.macro.list
            ran == last'.steps
            k == Len(last'.steps)
        IN /\ k <= Len(macro)
           /\ \A i \in 1 .. k : WellFormedStep(macro[i]) /\ ran[i].method = StrOf(macro[i].dict.method)
           /\ \A i \in 1 .. k - 1 : ran[i].res.ok
           /\ last'.res.ok =>
                 /\ k = Len(macro)
                 /\ Len(last'.res.value.steps) = Len(macro)
                 /\ \A i \in 1 .. k :
                       /\ ran[i].res.ok
                       /\ last'.res.value.steps[i]
                            = [method |-> StrOf(macro[i].dict.method), result |-> ran[i].res.value]
           /\ ~last'.res.ok =>
                 \/ k > 0 /\ ~ran[k].res.ok /\ last'.res = ran[k].res
                 \/ /\ k < Len(macro) /\ ~WellFormedStep(macro[k + 1])
                    /\ (k > 0 => ran[k].res.ok)
           /\ IF k > 0 THEN files' = ran[k].files /\ hist' = ran[k].hist
              ELSE files' = files /\ hist' = hist]_vars

\* A macro of three steps has failed at its second step, after its first step
\* took a snapshot that the history now holds.
MacroRunsStepsInOrderWitness ==
  /\ last.method = "macro.run" /\ ~last.res.ok
  /\ Len(last.params.macro.list) = 3 /\ Len(last.steps) = 2
  /\ last.steps[1].method = "image.snapshot" /\ last.steps[1].res.ok /\ ~last.steps[2].res.ok
  /\ last.prior.count < Len(hist[ImgA].snapshots)

\* ------------------------------------------------------------------ crop properties
\* The size the editor reports of the image when the first run at hand is an
\* inspection that succeeds.
SourceSize(call) == RunPythonBatch(call.runs[1]).value

Inspects(call) == call.runs # <<>> /\ RunPythonBatch(call.runs[1]).ok

\* The invocations of `action` among those a call sent.
SentOf(call, action) == {i \in 1 .. Len(call.sent) : call.sent[i].action = action}

\* C12 as stated: image.crop_center of a w x h region with w <= src_w and
\* h <= src_h inspects and then issues one crop at x = (src_w - w) div 2,
\* y = (src_h - h) div 2, inside the source; with w > src_w or h > src_h it
\* fails with INVALID_INPUT and issues no crop.
CropCentredWithinSource ==
  (last.method = "image.crop_center" /\ Inspects(last)) =>
    LET cw == last.params.width.int
        ch == last.params.height.int
        src == SourceSize(last)
    IN IF cw <= src.width /\ ch <= src.height
       THEN /\ Len(last.sent) = 2
            /\ last.sent[1].action = "inspect" /\ last.sent[2].action = "crop"
            /\ last.sent[2].payload.x = [int |-> (src.width - cw) \div 2]
            /\ last.sent[2].payload.y = [int |-> (src.height - ch) \div 2]
            /\ last.sent[2].payload.x.int >= 0 /\ last.sent[2].payload.y.int >= 0
            /\ last.sent[2].payload.x.int + cw <= src.width
            /\ last.sent[2].payload.y.int + ch <= src.height
       ELSE Failed(last.res, "INVALID_INPUT") /\ SentOf(last, "crop") = {}

\* C12 amended: the same for 0 < w <= src_w and 0 < h <= src_h; a request
\* with w <= 0 or h <= 0 fails with INVALID_INPUT before the inspection, and
\* one with w > src_w or h > src_h fails with INVALID_INPUT and issues no
\* crop.
CropCentredPositiveSizes ==
  (last.method = "image.crop_center" /\ Inspects(last)) =>
    LET cw == last.params.width.int
        ch == last.params.height.int
        src == SourceSize(last)
    IN IF cw <= 0 \/ ch <= 0
       THEN Failed(last.res, "INVALID_INPUT") /\ last.sent = <<>>
       ELSE IF cw <= src.width /\ ch <= src.height
       THEN /\ Len(last.sent) = 2
            /\ last.sent[1].action = "inspect" /\ last.sent[2].action = "crop"
            /\ last.sent[2].payload.x = [int |-> (src.width - cw) \div 2]
            /\ last.sent[2].payload.y = [int |-> (src.height - ch) \div 2]
            /\ last.sent[2].payload.x.int >= 0 /\ last.sent[2].payload.y.int >= 0
            /\ last.sent[2].payload.x.int + cw <= src.width
            /\ last.sent[2].payload.y.int + ch <= src.height
       ELSE Failed(last.res, "INVALID_INPUT") /\ SentOf(last, "crop") = {}

\* A 2 x 1 region has been cropped from the centre of a 3 x 3 image: the
\* offsets are 0 and 1, both differences being rounded down.
CropCentredPositiveSizesWitness ==
  /\ last.method = "image.crop_center" /\ last.res.ok /\ Inspects(last)
  /\ SourceSize(last) = [width |-> 3, height |-> 3]
  /\ last.params.width = [int |-> 2] /\ last.params.height = [int |-> 1]
  /\ Len(last.sent) = 2 /\ last.sent[2].payload.x = [int |-> 0] /\ last.sent[2].payload.y = [int |-> 1]

\* ------------------------------------------------------------------ montage properties
\* Whether two pasted rectangles share no pixel.
Apart(s, t) ==
  \/ s.x + s.width <= t.x \/ t.x + t.width <= s.x
  \/ s.y + s.height <= t.y \/ t.y + t.height <= s.y

\* C13: image.montage_grid given rows * cols images with rows, cols,
\* tileWidth, tileHeight > 0 and gutter >= 0 saves one canvas of width
\* cols*tileWidth + (cols-1)*gutter and height rows*tileHeight + (rows-1)*gutter,
\* image i pasted at column i mod cols and row i div cols, every tile inside
\* the canvas and no two tiles overlapping; given anything else it fails with
\* INVALID_INPUT and writes nothing.
MontageGridGeometry ==
  [][last'.method = "image.montage_grid" =>
       LET count == Len(last'.params.images.list)
           rows == last'.params.rows.int
           cols == last'.params.cols.int
           tw == last'.params.tileWidth.int
           th == last'.params.tileHeight.int
           g == last'.params.gutter.int
       IN IF count = rows * cols /\ rows > 0 /\ cols > 0 /\ tw > 0 /\ th > 0 /\ g >= 0
          THEN /\ last'.res.ok /\ Len(last'.saved) = 1
               /\ Resolve(last'.saved[1].output) \in DOMAIN files'
               /\ LET canvas == last'.saved[1].canvas
                  IN /\ canvas.width = cols * tw + (cols - 1) * g
                     /\ canvas.height = rows * th + (rows - 1) * g
                     /\ Len(canvas.tiles) = count
                     /\ \A n \in 1 .. count :
                          /\ canvas.tiles[n].source = StrOf(last'.params.images.list[n])
                          /\ canvas.tiles[n].x = ((n - 1) % cols) * (tw + g)
                          /\ canvas.tiles[n].y = ((n - 1) \div cols) * (th + g)
                          /\ canvas.tiles[n].width = tw /\ canvas.tiles[n].height = th
                          /\ canvas.tiles[n].x >= 0 /\ canvas.tiles[n].y >= 0
                          /\ canvas.tiles[n].x + tw <= canvas.width
                          /\ canvas.tiles[n].y + th <= canvas.height
                     /\ \A n \in 1 .. count, m \in 1 .. count :
                          n # m => Apart(canvas.tiles[n], canvas.tiles[m])
          ELSE Failed(last'.res, "INVALID_INPUT") /\ last'.saved = <<>> /\ files' = files]_vars

\* A grid of two rows and two columns with a gutter has been composed of four
\* images.
MontageGridGeometryWitness ==
  /\ last.method = "image.montage_grid" /\ last.res.ok
  /\ last.params.rows = [int |-> 2] /\ last.params.cols = [int |-> 2] /\ last.params.gutter = [int |-> 1]
  /\ Len(last.saved) = 1 /\ Len(last.saved[1].canvas.tiles) = 4
  /\ last.saved[1].canvas.width = 5 /\ last.saved[1].canvas.height = 7

\* ------------------------------------------------------------------ command-line properties
\* C14: once bridge start --port P has succeeded and while that bridge is up,
\* a command run in a fresh process without HARNESS_GIMP_BRIDGE_URL reaches
\* the bridge at port P; with the variable set, the command goes to the URL
\* of the variable.
StartedBridgeIsReached ==
  cli.out.command = "bridge.status" =>
    /\ (cli.out.env = 0 /\ cli.started # 0) => cli.out.target = cli.started /\ cli.out.status = "running"
    /\ cli.out.env # 0 => cli.out.target = cli.out.env

\* ------------------------------------------------------------------ soak properties
\* How many of the calls on record failed.
FailuresOf(ran) == Cardinality({i \in 1 .. Len(ran) : ~ran[i].res.ok})

\* C15 as stated: system.soak with iterations = N calls the action N times,
\* returns whatever the action does, and reports failures = the number of
\* calls that failed, 0 <= failures <= N, and stable exactly when failures = 0.
SoakCountsFailures ==
  last.method = "system.soak" =>
    /\ last.res.ok
    /\ Len(last.steps) = last.params.iterations.int
    /\ \A i \in 1 .. Len(last.steps) : last.steps[i].method = last.params.action.str
    /\ last.res.value.failures = FailuresOf(last.steps)
    /\ last.res.value.failures >= 0 /\ last.res.value.failures <= last.params.iterations.int
    /\ last.res.value.stable <=> last.res.value.failures = 0

\* C15 amended: the same with max(1, N) calls and 0 <= failures <= max(1, N).
SoakCountsFailuresOfRounds ==
  last.method = "system.soak" =>
    /\ last.res.ok
    /\ Len(last.steps) = Rounds(last.params.iterations.int)
    /\ \A i \in 1 .. Len(last.steps) : last.steps[i].method = last.params.action.str
    /\ last.res.value.iterations = last.params.iterations.int
    /\ last.res.value.failures = FailuresOf(last.steps)
    /\ last.res.value.failures >= 0 /\ last.res.value.failures <= Rounds(last.params.iterations.int)
    /\ last.res.value.stable <=> last.res.value.failures = 0

\* A soak of three undos has counted two failures after one success.
SoakCountsFailuresOfRoundsWitness ==
  /\ last.method = "system.soak" /\ last.params.iterations = [int |-> 3]
  /\ last.params.action = [str |-> "image.undo"]
  /\ last.steps[1].res.ok /\ last.res.value.failures = 2 /\ ~last.res.value.stable

\* ------------------------------------------------------------------ edit properties
\* Whether the call edits its image in place: the output it names, or the
\* image when it names none, resolves to the image.
InPlace(call) ==
  Resolve(IF "output" \in DOMAIN call.params THEN StrOf(call.params.output) ELSE StrOf(call.params.image))
    = Resolve(StrOf(call.params.image))

BothSucceeded == \A t \in Threads : reqs.th[t].pc = "done" /\ reqs.th[t].res.ok

\* Both requests loaded the document before either saved it.
Overlapped == \A t, u \in Threads : reqs.th[t].loaded < reqs.th[u].saved

\* The request that saved last.
LastSaver == CHOOSE t \in Threads : \A u \in Threads : reqs.th[u].saved <= reqs.th[t].saved

FirstSaver == CHOOSE t \in Threads : t # LastSaver

\* The entry of RaceImage in a document.
EntryOf(state) ==
  IF Resolve(RaceImage) \in DOMAIN state THEN state[Resolve(RaceImage)]
  ELSE [snapshots |-> <<>>, index |-> -1]

Names(list, path) == \E n \in 1 .. Len(list) : list[n] = path

\* C17: when two concurrent requests on one image both loaded the history
\* document before either saved it and both returned success, the persisted
\* entry is what the request that saved last made of the document as it was
\* before the two, and the update of the other is lost: after a snapshot that
\* saved last, the list is the part the cursor kept followed by that
\* snapshot alone; after an undo or a redo that saved last, the list is
\* unchanged and the cursor moved one step from where it was.  For two
\* snapshots the list is one longer than the kept part, although both
\* returned that count, and the path the first saver returned, when it
\* differs and the kept part did not hold it already, is not in the list.
LostUpdate ==
  BothSucceeded /\ Overlapped =>
    LET before == EntryOf(reqs.start)
        entry == EntryOf(hist)
        kept == SubSeq(before.snapshots, 1, before.index + 1)
        l == reqs.th[LastSaver]
        f == reqs.th[FirstSaver]
    IN /\ entry.index = l.res.value.index
       /\ Len(entry.snapshots) = l.res.value.count
       /\ l.method = "image.snapshot" =>
            entry.snapshots = kept \o <<l.path>> /\ entry.index = Len(kept)
       /\ l.method # "image.snapshot" =>
            entry.snapshots = before.snapshots /\ entry.index = before.index + Direction(l.method)
       /\ l.method = "image.snapshot" /\ f.method = "image.snapshot" =>
            /\ Len(entry.snapshots) = Len(kept) + 1
            /\ f.res.value.count = Len(kept) + 1
            /\ f.path # l.path /\ ~Names(kept, f.path) => ~Names(entry.snapshots, f.path)

\* Two snapshots with different descriptions of an image that had one
\* snapshot, both returned with count 2: the list has two paths, and the
\* path the first saver returned is not among them.
LostUpdateWitness ==
  /\ BothSucceeded /\ Overlapped
  /\ \A t \in Threads : reqs.th[t].method = "image.snapshot" /\ reqs.th[t].res.value.count = 2
  /\ reqs.th[FirstSaver].path # reqs.th[LastSaver].path
  /\ Len(EntryOf(reqs.start).snapshots) = 1
  /\ Len(EntryOf(hist).snapshots) = 2
  /\ ~Names(EntryOf(reqs.start).snapshots, reqs.th[FirstSaver].path)
  /\ ~Names(EntryOf(hist).snapshots, reqs.th[FirstSaver].path)
  /\ reqs.th[FirstSaver].path \in DOMAIN snaps

\* ------------------------------------------------------------------ snapshot file properties
\* No path occurs twice in a snapshot list.
NoPathTwice(state) ==
  \A k \in DOMAIN state : \A m, n \in 1 .. Len(state[k].snapshots) :
     state[k].snapshots[m] = state[k].snapshots[n] => m = n

\* C18: a snapshot file that a list names keeps its bytes for as long as a
\* list names it, whatever snapshot, undo, redo or edit follows, and no path
\* occurs twice in a snapshot list, also for snapshots with the same
\* description taken within one second.
SnapshotsAreImmutable ==
  [][/\ \A q \in DOMAIN snaps \cap DOMAIN snaps' : snaps'[q] = snaps[q]
     /\ NoPathTwice(hist')]_vars

\* ------------------------------------------------------------------ editor failure properties
\* Whether a description is that of an auto-after snapshot.
IsAutoAfter(description) ==
  Len(description) >= Len(AutoAfter) /\ SubSeq(description, 1, Len(AutoAfter)) = AutoAfter

\* C19: a call whose editor run failed (a non-zero exit, no structured line,
\* a structured line that is no JSON, or a timeout) raises
\* BridgeOperationError with code ERROR and takes no auto-after snapshot.
InvocationFailuresAreErrors ==
  last.sent # <<>> /\ ~RunPythonBatch(Head(last.runs)).ok =>
    /\ last.res = BridgeError(World(<<>>), "ERROR").res
    /\ \A n \in 1 .. Len(last.took) : ~IsAutoAfter(last.took[n].description)

\* ------------------------------------------------------------------ editor output properties
\* The positions of the marker lines in a sequence of lines.
MarkerLines(lines) == {n \in 1 .. Len(lines) : lines[n].marker}

Greatest(S) == CHOOSE n \in S : \A m \in S : m <= n

\* C20: run_python_batch fails when the exit code is not zero, whatever was
\* printed, and when no line of stdout followed by stderr starts with the
\* marker; with exit code zero it goes by the last marker line alone: when
\* that holds a JSON object it returns that object, whatever earlier marker
\* lines hold, and otherwise it fails.
ReturnsLastMarkerLine ==
  batch.ran =>
    LET lines == batch.stdout \o batch.stderr
        marked == MarkerLines(lines)
    IN IF batch.returncode # 0 \/ marked = {}
       THEN batch.result = [ok |-> FALSE, exc |-> "GimpExecutionError"]
       ELSE IF DOMAIN lines[Greatest(marked)].body = {"json"}
       THEN batch.result = [ok |-> TRUE, value |-> lines[Greatest(marked)].body.json]
       ELSE batch.result = [ok |-> FALSE, exc |-> "GimpExecutionError"]

\* A marker line on stdout and another on stderr, with different objects:
\* the one of stderr is returned.
ReturnsLastMarkerLineWitness ==
  /\ batch.ran /\ batch.returncode = 0
  /\ batch.stdout = <<[marker |-> TRUE, body |-> JsonBody(Inspected)], Noise>>
  /\ batch.stderr = <<[marker |-> TRUE, body |-> JsonBody([width |-> 1, height |-> 1])], Noise>>
  /\ batch.result = [ok |-> TRUE, value |-> [width |-> 1, height |-> 1]]

\* ------------------------------------------------------------------ enum word properties
\* The fixed set of each method, and the word given, in the case of the set.
AllowList(method) ==
  CASE method = "image.flip" -> {"horizontal", "vertical"}
    [] method = "adjust.color_balance" -> {"SHADOWS", "MIDTONES", "HIGHLIGHTS"}
    [] method = "adjust.desaturate" -> {"LUMA", "AVERAGE", "LIGHTNESS"}
    [] method = "mask.add" -> {"WHITE", "BLACK", "ALPHA", "SELECTION", "COPY"}
    [] method = "image.montage_grid" -> {"cover", "contain"}

Folded(method, word) ==
  CASE method = "image.flip" -> Lower(word)
    [] method = "image.montage_grid" -> FitMode([str |-> word])
    [] OTHER -> Upper(word)

\* C21: a call that gives an enum word succeeds, the editor answering, when
\* the word is in the fixed set of its method whatever its case, and fails
\* with INVALID_INPUT when it is not.
EnumWordsChecked ==
  last.method \in EnumMethods /\ EnumKey(last.method) \in DOMAIN last.params =>
    IF Folded(last.method, last.params[EnumKey(last.method)].str) \in AllowList(last.method)
    THEN last.res.ok
    ELSE last.res = BridgeError(World(<<>>), "INVALID_INPUT").res

\* ------------------------------------------------------------------ numeric range properties
\* Whether a value is a number within the range of its parameter.
WithinRange(key, v) ==
  /\ IsInt(v)
  /\ CASE key = "opacity" -> 0 <= v.int /\ v.int <= 100
        [] key = "degrees" -> v.int \in {90, 180, 270}
        [] OTHER -> v.int > 0

\* The ranged parameters an editor invocation carries.
Ranged(invocation) ==
  CASE invocation.action \in {"resize", "crop", "canvas_size"} -> {"width", "height"}
    [] invocation.action = "layer_opacity" -> {"opacity"}
    [] invocation.action = "rotate" -> {"degrees"}
    [] OTHER -> {}

\* C22: every editor invocation of image.resize, image.crop,
\* image.crop_center, image.canvas_size, layer.opacity and image.rotate
\* carries width > 0 and height > 0, 0 <= opacity <= 100, and degrees among
\* 90, 180 and 270; a call that gives any other value fails with
\* INVALID_INPUT and invokes nothing.
EditorInvokedInRange ==
  last.method \in RangeMethods =>
    /\ \A n \in 1 .. Len(last.sent) :
         \A key \in Ranged(last.sent[n]) : WithinRange(key, last.sent[n].payload[key])
    /\ (\E key \in RangeKeys(last.method) : ~WithinRange(key, last.params[key])) =>
         last.sent = <<>> /\ last.res = BridgeError(World(<<>>), "INVALID_INPUT").res

\* ------------------------------------------------------------------ macro default properties
\* The params a step of the macro of the latest call gives itself.
OwnOf(i) ==
  IF "params" \in DOMAIN last.params.macro.list[i].dict
  THEN last.params.macro.list[i].dict.params.dict ELSE EmptyDict

\* The params the latest call gives its macro.
MacroLevel == IF "params" \in DOMAIN last.params THEN last.params.params.dict ELSE EmptyDict

\* C23: every step of macro.run runs with its own params unchanged, with the
\* image of the macro when it names none, and with each param of the macro
\* whose key the step does not have by then, and with nothing else.
StepParamsTakePrecedence ==
  last.method = "macro.run" /\ IsList(last.params.macro) =>
    \A i \in 1 .. Len(last.steps) :
      LET ran == last.steps[i].params
      IN /\ DOMAIN ran = DOMAIN OwnOf(i) \cup {"image"} \cup DOMAIN MacroLevel
         /\ \A k \in DOMAIN OwnOf(i) : ran[k] = OwnOf(i)[k]
         /\ "image" \notin DOMAIN OwnOf(i) => ran.image = last.params.image
         /\ \A k \in DOMAIN MacroLevel \ (DOMAIN OwnOf(i) \cup {"image"}) : ran[k] = MacroLevel[k]

\* Two steps ran under a macro that gives degrees, an image and an output:
\* the first with its own degrees, image and output, the second with none of
\* its own, so with the degrees and the output of the macro and the image
\* of the call.
StepParamsTakePrecedenceWitness ==
  /\ last.method = "macro.run" /\ Len(last.steps) = 2
  /\ DOMAIN MacroLevel = {"degrees", "image", "output"}
  /\ last.steps[1].params = [degrees |-> [int |-> 90], image |-> [str |-> ImgB], output |-> [str |-> OutP]]
  /\ OwnOf(2) = EmptyDict
  /\ last.steps[2].params = [degrees |-> [int |-> 180], image |-> [str |-> ImgA], output |-> [str |-> OutP]]
  /\ last.res.ok

\* ------------------------------------------------------------------ planned edit properties
\* The params of the planned edit last called, as a dict.
GivenParams == IF IsDict(last.params.params) THEN last.params.params.dict ELSE EmptyDict

PlannedOn(image) == last.method = "project.plan_edit" /\ last.params.image = [str |-> image]

Refusal == [ok |-> FALSE, exc |-> "BridgeOperationError", code |-> "INVALID_INPUT"]

\* Every method of the table is listed and has a branch.
TableIsRegistered ==
  \A a \in DOMAIN method_map : method_map[a] \in ACTION_METHODS /\ method_map[a] \in Branches

\* The planned edit made one call of handle_method, of the method the table
\* gives for name, and answered what that call answered.
DelegatedAs(name) ==
  /\ Len(last.steps) = 1
  /\ last.steps[1].method = method_map[name]
  /\ last.res = last.steps[1].res

\* The statement as first made: the name is looked up as given, and the image
\* checked is the image passed on.
PlanEditPassesCheckedImage ==
  /\ TableIsRegistered
  /\ PlannedOn(ImgA) =>
       IF last.params.action.str \notin DOMAIN method_map
       THEN last.res = Refusal /\ last.steps = <<>> /\ last.sent = <<>>
       ELSE /\ DelegatedAs(last.params.action.str)
            /\ last.steps[1].params = Put(GivenParams, "image", [str |-> ImgA])

\* C24: project.plan_edit fails with INVALID_INPUT, calling nothing, for every
\* action name that, stripped of surrounding whitespace, is outside its lookup
\* table; for every name inside it makes one call of a method that
\* system.actions lists and handle_method has a branch for, passing the
\* caller's params with the checked image added where they give no image.
PlanEditDelegates ==
  /\ TableIsRegistered
  /\ PlannedOn(ImgA) =>
       IF Strip(last.params.action.str) \notin DOMAIN method_map
       THEN last.res = Refusal /\ last.steps = <<>> /\ last.sent = <<>>
       ELSE /\ DelegatedAs(Strip(last.params.action.str))
            /\ DOMAIN last.steps[1].params = DOMAIN GivenParams \cup {"image"}
            /\ \A k \in DOMAIN GivenParams : last.steps[1].params[k] = GivenParams[k]
            /\ "image" \notin DOMAIN GivenParams => last.steps[1].params.image = [str |-> ImgA]

\* A planned rotation with an image of its own among its params, which ran.
PlanEditDelegatesWitness ==
  /\ PlannedOn(ImgA)
  /\ Strip(last.params.action.str) = "rotate"
  /\ "image" \in DOMAIN GivenParams
  /\ GivenParams.image = [str |-> ImgB]
  /\ Len(last.steps) = 1
  /\ last.steps[1].res.ok
  /\ Len(last.sent) = 1

\* ------------------------------------------------------------------ omitted output properties
\* The call last made went in place: it reached the editor, every payload
\* sent but that of a reading names the image as its output, the call was not
\* refused, and the image was snapshot before the editor ran.
WentInPlace ==
  /\ last.sent # <<>>
  /\ \A i \in 1..Len(last.sent) :
       /\ last.sent[i].payload.image = [str |-> ImgA]
       /\ last.sent[i].action # "inspect" => last.sent[i].payload.output = [str |-> ImgA]
  /\ last.res.ok => last.sent[Len(last.sent)].action = EditMethod(last.method).action
  /\ last.res # Refusal
  /\ last.took # <<>>
  /\ last.took[1].description = AutoBefore \o Chars(EditMethod(last.method).label)
  /\ last.res.ok => Len(last.took) = 2 /\ hist[Resolve(ImgA)].index = last.prior.index + 2

\* The call last made failed before anything ran or was snapshot.
OutputRequired == ~last.res.ok /\ last.sent = <<>> /\ last.took = <<>>

\* The statement as first made: every method that writes an image goes in
\* place when the output is omitted.
OmittedOutputIsInPlace ==
  last.method \in WritingMethods =>
    IF last.method \in EditMethods \cup FurtherEditMethods THEN WentInPlace
    ELSE last.sent # <<>> /\ last.res # Refusal

\* C25: for every operation capable of writing an image other than
\* image.save, image.export and image.montage_grid, omitting output makes the
\* operation write to the image path itself: the output sent to the editor
\* equals the image path, the call does not fail for lack of an output, and
\* the in-place auto-snapshot rule applies; those three have no default for
\* the output and fail, running and snapshotting nothing, when it is omitted.
OmittedOutputIsInPlaceForEdits ==
  last.method \in WritingMethods =>
    IF last.method \in EditMethods \cup FurtherEditMethods THEN WentInPlace ELSE OutputRequired

\* An edit without output succeeded in place, and an export without output
\* was refused.
OmittedOutputIsInPlaceForEditsWitness ==
  /\ last.method = "image.export"
  /\ "output" \notin DOMAIN last.params
  /\ OutputRequired
  /\ Resolve(ImgA) \in DOMAIN hist
  /\ hist[Resolve(ImgA)].index = 1

\* ------------------------------------------------------------------ curves properties
\* C26: adjust.curves forwards the caller's points list to the dispatcher
\* unchanged (same elements, same order, no rescaling), and fails with
\* INVALID_INPUT without invoking the dispatcher when points is not a list.
CurvesForwardsPoints ==
  last.method = "adjust.curves" =>
    IF "points" \in DOMAIN last.params /\ IsList(last.params.points)
    THEN /\ Len(last.sent) = 1
         /\ last.sent[1].action = "curves"
         /\ last.sent[1].payload.points = last.params.points
    ELSE last.res = Refusal /\ last.sent = <<>>

\* Points given from the largest x to the smallest reached the editor in that
\* order.
CurvesForwardsPointsWitness ==
  /\ last.method = "adjust.curves"
  /\ last.params.points = [list |-> <<Pair(255, 255), Pair(0, 0)>>]
  /\ Len(last.sent) = 1
  /\ last.sent[1].payload.points.list[1] = Pair(255, 255)
  /\ last.res.ok

\* C30: the curves action never passes a degenerate range to the editor: for
\* every list of at least two points, the black and white points of the
\* levels call satisfy 0 <= black < white <= 255.
LevelsRangeIsProper ==
  \A i \in 1..Len(last.sent) :
    ~IsNull(last.sent[i].levels) =>
      /\ 0 <= last.sent[i].levels.black
      /\ last.sent[i].levels.black < last.sent[i].levels.white
      /\ last.sent[i].levels.white <= 255

\* ------------------------------------------------------------------ undone edit properties
\* C27: one undo reverts one edit: starting from an image with no history,
\* after n >= 1 successful in-place edits, n consecutive image.undo calls all
\* succeed, each restoring the bytes the image had before the edit it answers
\* to, and the n-th leaves the image with its original bytes.
OneUndoRevertsOneEdit ==
  /\ rt.undos >= 1 => rt.ok
  /\ rt.n >= 1 /\ rt.undos = rt.n => files[ImgA] = rt.list[1]

\* ------------------------------------------------------------------ cursor properties
\* Whether the call last made is one the cursor is moved by: a snapshot, an
\* undo, a redo, or an edit in place.
MovesCursor ==
  \/ last.method \in {"image.snapshot", "image.undo", "image.redo"}
  \/ last.method \in EditMethods /\ InPlace(last)

\* C28: after every successful image.snapshot, image.undo, image.redo and
\* every successful in-place edit of an image, the bytes of the live image file
\* equal the bytes stored at snapshots[index] of that image's history entry.
CursorAgreesWithFile ==
  last.res.ok /\ MovesCursor =>
    /\ KeyOf(last.params) \in DOMAIN hist
    /\ At(hist[KeyOf(last.params)].snapshots, hist[KeyOf(last.params)].index) \in DOMAIN snaps
    /\ files[KeyOf(last.params)]
         = snaps[At(hist[KeyOf(last.params)].snapshots, hist[KeyOf(last.params)].index)]

\* An edit in place succeeded and changed the bytes of the image.
CursorAgreesWithFileWitness ==
  /\ last.method = "image.resize" /\ last.res.ok /\ InPlace(last)
  /\ Len(last.took) = 2
  /\ last.took[1].bytes # files[KeyOf(last.params)]
  /\ hist[KeyOf(last.params)].index >= 1

\* ------------------------------------------------------------------ isolation properties
\* The step leaves the entry of every image other than `key` as it was.
OthersUntouched(key) ==
  \A k \in DOMAIN hist : k # key => k \in DOMAIN hist' /\ hist'[k] = hist[k]

\* The step is one of the request of thread t.
StepOf(t) == reqs'.th[t] # reqs.th[t] /\ reqs.th[t].pc \in {"arrived", "loaded", "copied"}

\* No other request has saved the document since the request of t loaded it.
NoSaveSince(t) == \A u \in Threads \ {t} : reqs.th[u].saved < reqs.th[t].loaded

\* C29: history entries of different images are isolated: no step of a
\* snapshot, undo, redo or edit of image A changes, shortens or removes the
\* history entry (snapshot list and cursor) of a different image B, also when
\* the request on A runs concurrently with a request on B.
EntriesAreIsolated ==
  [][/\ \A t \in Threads : StepOf(t) => OthersUntouched(Resolve(reqs.th[t].image))
     /\ last'.method # "" => OthersUntouched(KeyOf(last'.params))]_vars

\* What does hold: the entries of the other images are left alone by every
\* request during which no other request saved the document.
EntriesAreIsolatedApart ==
  [][/\ \A t \in Threads : StepOf(t) /\ NoSaveSince(t) => OthersUntouched(Resolve(reqs.th[t].image))
     /\ last'.method # "" => OthersUntouched(KeyOf(last'.params))]_vars

\* ------------------------------------------------------------------ transport properties
\* C6: when the server answers a call of the client with a failure envelope
\* {code, message}, BridgeClient.call raises BridgeClientError with that code
\* and message, and the command line reports the error as retryable only when
\* no answer came.
FailureEnvelopeSurfaces ==
  http.client # Null =>
    /\ (/\ http.response # Null /\ ~http.response.body.ok /\ IsDict(http.response.body.error))
       => /\ ~http.client.ok
          /\ http.client.code = http.response.body.error.dict.code.str
          /\ http.client.message = http.response.body.error.dict.message.str
    /\ (~http.client.ok /\ http.client.retryable) => http.response = Null

\* C7: the body of every response of the server is {ok: true, ...} or
\* {ok: false, error: {code, message}} with code and message strings.
ResponsesAreEnvelopes ==
  http.response # Null =>
    \/ http.response.body.ok
    \/ /\ IsDict(http.response.body.error)
       /\ DOMAIN http.response.body.error.dict = {"code", "message"}
       /\ IsStr(http.response.body.error.dict.code)
       /\ IsStr(http.response.body.error.dict.message)

====
